---------------------------- MODULE Spec2Model ----------------------------
(***************************************************************************)
(* Model of RedeDistribuicao (src/otimizacao_rotas.py): a directed,        *)
(* cost-weighted distribution network held in a networkx DiGraph, the      *)
(* exhaustive depth-first minimum-cost query, the route comparison, the    *)
(* failure simulation with its backup, and the robustness analysis.        *)
(*                                                                         *)
(* A DiGraph keeps its nodes and, for every node, its successors in        *)
(* insertion order (Python dicts); the model keeps both orders because     *)
(* edges() and successors() iterate in them.                               *)
(***************************************************************************)
EXTENDS Integers, Sequences, FiniteSets, TLC

(***************************************************************************)
(* Bounds of the model and the small input sets.                           *)
(***************************************************************************)
MaxEstradas == 3
MaxClientes == 2

\* The backups a caller holds at the same time.
MaxCopias == 2

Cidades == {"A", "B", "C"}
\* The calls the model makes to adicionar_cidade: a warehouse and two
\* customers (a city that only adicionar_estrada names has no role).
CidadesEntrada ==
    {<<"A", "armazem">>, <<"B", "cliente">>, <<"C", "cliente">>}

\* The calls the model makes to adicionar_estrada: the two routes A -> C of the
\* documented scenario (A->B 10, B->C 5, A->C 30), a second cost for A -> C
\* that ties with the route through B, a road back to A and a self-loop.
EstradasEntrada ==
    {<<"A", "B", 10>>, <<"B", "C", 5>>, <<"A", "C", 30>>, <<"A", "C", 15>>,
     <<"C", "A", 5>>, <<"A", "A", 5>>}

\* Python's None, where a name or a role is expected.
Nenhum == "None"
\* The cost slot of a pair of cities that is not an edge.
SemCusto == 0 - 1

(***************************************************************************)
(* The networkx DiGraph: nodes in insertion order, the node attribute      *)
(* 'tipo', the successors of each node in insertion order, and the edge    *)
(* attribute 'custo' ('peso' is always written with the same value).       *)
(***************************************************************************)
GrafoVazio ==
    [nos   |-> << >>,
     tipo  |-> [n \in Cidades |-> Nenhum],
     succ  |-> [n \in Cidades |-> << >>],
     custo |-> [p \in Cidades \X Cidades |-> SemCusto]]

InSeq(s, x) == \E i \in 1..Len(s) : s[i] = x

SemElem(s, x) == SelectSeq(s, LAMBDA y : y # x)

\* `n in self.grafo`
HasNode(g, n) == InSeq(g.nos, n)

\* self.grafo.has_edge(u, v)
HasEdge(g, u, v) == u \in Cidades /\ InSeq(g.succ[u], v)

\* self.grafo.add_node(nome, tipo=tipo)
AddNode(g, n, t) ==
    [g EXCEPT !.nos = IF HasNode(g, n) THEN @ ELSE Append(@, n),
              !.tipo[n] = t]

\* Variant of AddNodeSemTipo that creates no node.
AddNodeIgnorado(g, n) == g

\* add_edge creates a missing endpoint as a node without attributes.
AddNodeSemTipo(g, n) ==
    IF HasNode(g, n) THEN g ELSE [g EXCEPT !.nos = Append(@, n)]

\* Variant of AddEdge for a multigraph: a second road for the same pair is
\* kept next to the first.
AddEdgeParalela(g, u, v, c) ==
    LET g1 == AddNodeSemTipo(AddNodeSemTipo(g, u), v)
    IN  [g1 EXCEPT !.succ[u] = Append(@, v),
                   !.custo[<<u, v>>] = c]

\* self.grafo.add_edge(u, v, peso=c, custo=c)
AddEdge(g, u, v, c) ==
    LET g1 == AddNodeSemTipo(AddNodeSemTipo(g, u), v)
    IN  [g1 EXCEPT !.succ[u] = IF InSeq(@, v) THEN @ ELSE Append(@, v),
                   !.custo[<<u, v>>] = c]

\* A removal that leaves the graph as it is.
RemoveEdgeSemEfeito(g, u, v) == g

\* self.grafo.remove_edge(u, v), for an edge that exists
RemoveEdge(g, u, v) ==
    [g EXCEPT !.succ[u] = SemElem(@, v),
              !.custo[<<u, v>>] = SemCusto]

RECURSIVE EdgesFrom(_, _)
\* list(self.grafo.edges()): node order, then successor order
EdgesFrom(g, i) ==
    IF i > Len(g.nos) THEN << >>
    ELSE LET u == g.nos[i]
         IN  [k \in 1..Len(g.succ[u]) |-> <<u, g.succ[u][k]>>] \o EdgesFrom(g, i + 1)

Edges(g) == EdgesFrom(g, 1)

NumberOfEdges(g) == Len(Edges(g))

InDegree(g, n) == Cardinality({u \in Cidades : InSeq(g.succ[u], n)})

OutDegree(g, n) == Len(g.succ[n])

(***************************************************************************)
(* The exhaustive depth-first search shared by the two path queries.       *)
(***************************************************************************)
RECURSIVE Dfs(_, _, _, _, _, _), DfsVizinhos(_, _, _, _, _, _, _)
\* dfs(atual, destino, caminho_atual, custo_atual, visitados): the (path, cost)
\* pairs it appends to caminhos_encontrados, in the order it appends them.
\* visitados holds the nodes of the path under construction: atual is added
\* on entry and removed on exit.
Dfs(g, atual, destino, caminho_atual, custo_atual, visitados) ==
    IF atual = destino
    THEN << <<caminho_atual, custo_atual>> >>
    ELSE DfsVizinhos(g, atual, destino, caminho_atual, custo_atual,
                     visitados \cup {atual}, 1)

\* for vizinho in self.grafo.successors(atual), from the i-th successor on
DfsVizinhos(g, atual, destino, caminho_atual, custo_atual, visitados, i) ==
    IF i > Len(g.succ[atual]) THEN << >>
    ELSE LET vizinho == g.succ[atual][i]
             custo_aresta == g.custo[<<atual, vizinho>>]
             achados == IF vizinho \notin visitados
                        THEN Dfs(g, vizinho, destino, Append(caminho_atual, vizinho),
                                 custo_atual + custo_aresta, visitados)
                        ELSE << >>
         IN  achados \o DfsVizinhos(g, atual, destino, caminho_atual, custo_atual,
                                    visitados, i + 1)

RECURSIVE MinDesdeMaior(_, _, _)
\* Variant of MinDesde with the comparison reversed: it keeps the dearest.
MinDesdeMaior(s, i, melhor) ==
    IF i > Len(s) THEN melhor
    ELSE MinDesdeMaior(s, i + 1, IF s[i][2] > melhor[2] THEN s[i] ELSE melhor)

RECURSIVE MinDesdeUltimo(_, _, _)
\* Variant of MinDesde that keeps the last smallest.
MinDesdeUltimo(s, i, melhor) ==
    IF i > Len(s) THEN melhor
    ELSE MinDesdeUltimo(s, i + 1, IF s[i][2] <= melhor[2] THEN s[i] ELSE melhor)

RECURSIVE MinDesde(_, _, _)
\* min(caminhos_encontrados, key=lambda x: x[1]) keeps the first smallest
MinDesde(s, i, melhor) ==
    IF i > Len(s) THEN melhor
    ELSE MinDesde(s, i + 1, IF s[i][2] < melhor[2] THEN s[i] ELSE melhor)

MinPorCusto(s) == MinDesde(s, 2, s[1])

\* (None, None)
NaoEncontrado == [achou |-> FALSE, caminho |-> << >>, custo |-> 0]

\* Variant of CalcularCaminhoMinimoManual that tests origem == destino before
\* it tests that the two are in the graph.
CalcularTrivialPrimeiro(g, origem, destino) ==
    IF origem = destino THEN [achou |-> TRUE, caminho |-> <<origem>>, custo |-> 0]
    ELSE IF ~HasNode(g, origem) \/ ~HasNode(g, destino) THEN NaoEncontrado
    ELSE LET caminhos_encontrados == Dfs(g, origem, destino, <<origem>>, 0, {})
         IN  IF Len(caminhos_encontrados) = 0 THEN NaoEncontrado
             ELSE LET m == MinPorCusto(caminhos_encontrados)
                  IN  [achou |-> TRUE, caminho |-> m[1], custo |-> m[2]]

\* Variant of CalcularCaminhoMinimoManual without the origem == destino case,
\* whose search looks for the destination among the successors only: for
\* origem == destino it answers a cycle through the node, if there is one.
CalcularSemCasoTrivial(g, origem, destino) ==
    IF ~HasNode(g, origem) \/ ~HasNode(g, destino) THEN NaoEncontrado
    ELSE LET caminhos_encontrados ==
                 DfsVizinhos(g, origem, destino, <<origem>>, 0, {}, 1)
         IN  IF Len(caminhos_encontrados) = 0 THEN NaoEncontrado
             ELSE LET m == MinPorCusto(caminhos_encontrados)
                  IN  [achou |-> TRUE, caminho |-> m[1], custo |-> m[2]]

CalcularCaminhoMinimoManual(g, origem, destino) ==
    IF ~HasNode(g, origem) \/ ~HasNode(g, destino) THEN NaoEncontrado
    ELSE IF origem = destino THEN [achou |-> TRUE, caminho |-> <<origem>>, custo |-> 0]
    ELSE LET caminhos_encontrados == Dfs(g, origem, destino, <<origem>>, 0, {})
         IN  IF Len(caminhos_encontrados) = 0 THEN NaoEncontrado
             ELSE LET m == MinPorCusto(caminhos_encontrados)
                  IN  [achou |-> TRUE, caminho |-> m[1], custo |-> m[2]]

\* Variant of InserirPorCusto that leaves the list in the order of discovery.
InserirSemOrdenar(s, x) == Append(s, x)

\* One step of a stable sort: x goes after every entry that costs no more.
InserirPorCusto(s, x) ==
    LET k == Cardinality({i \in 1..Len(s) : s[i][2] <= x[2]})
    IN  SubSeq(s, 1, k) \o <<x>> \o SubSeq(s, k + 1, Len(s))

RECURSIVE OrdenarPorCusto(_)
\* caminhos_encontrados.sort(key=lambda x: x[1]): list.sort is stable
OrdenarPorCusto(s) ==
    IF Len(s) = 0 THEN << >>
    ELSE InserirPorCusto(OrdenarPorCusto(SubSeq(s, 1, Len(s) - 1)), s[Len(s)])

\* comparar_rotas has no membership test: the search starts at once, and
\* successors() of an origin that is not in the graph raises NetworkXError
\* (unless origem == destino, where the search returns before it asks).
CompararRotas(g, origem, destino) ==
    IF origem # destino /\ ~HasNode(g, origem)
    THEN [erro |-> TRUE, rotas |-> << >>]
    ELSE [erro |-> FALSE,
          rotas |-> OrdenarPorCusto(Dfs(g, origem, destino, <<origem>>, 0, {}))]

(***************************************************************************)
(* analisar_robustez.                                                      *)
(***************************************************************************)
\* Variant of Designado without the test `if self.armazem`.
DesignadoSempre(arm) == TRUE

\* `if self.armazem`: None and the empty string are false.
Designado(arm) == arm # Nenhum /\ arm # ""

\* impacto_total: a number, or float('inf') once a route became impossible
\* (inf plus a number is inf).
ImpactoZero == [inf |-> FALSE, v |-> 0]

ImpactoInfinito == [inf |-> TRUE, v |-> 0]

SomarImpacto(impacto, diferenca) ==
    IF impacto.inf THEN impacto ELSE [impacto EXCEPT !.v = @ + diferenca]

\* impacto_total > 0
ImpactoPositivo(impacto) == impacto.inf \/ impacto.v > 0

\* Variant of GrafoDaRotaOriginal: the route called "original" is computed
\* on the graph that still has the road.
GrafoComEstrada(g_sem_estrada, g_com_estrada) == g_com_estrada

\* The graph on which the route called "original" is computed (line 272):
\* self.grafo at that point, from which the road is already removed.
GrafoDaRotaOriginal(g_sem_estrada, g_com_estrada) == g_sem_estrada

\* The body of `for cliente in self.clientes` (lines 271-285) for one customer.
AnalisarCliente(g_sem, g_com, arm, cliente, acc) ==
    IF ~Designado(arm) THEN acc
    ELSE LET original == CalcularCaminhoMinimoManual(
                             GrafoDaRotaOriginal(g_sem, g_com), arm, cliente)
             novo == CalcularCaminhoMinimoManual(g_sem, arm, cliente)
             diferenca == novo.custo - original.custo
         IN  IF ~novo.achou
             THEN [acc EXCEPT !.rotas_impossiveis = Append(@, cliente),
                              !.impacto_total = ImpactoInfinito]
             ELSE IF original.achou /\ diferenca > 0
             THEN [acc EXCEPT !.impacto_total = SomarImpacto(@, diferenca),
                              !.rotas_afetadas = Append(@, <<cliente, diferenca>>)]
             ELSE acc

RECURSIVE AnalisarClientes(_, _, _, _, _, _)
AnalisarClientes(g_sem, g_com, arm, cls, i, acc) ==
    IF i > Len(cls) THEN acc
    ELSE AnalisarClientes(g_sem, g_com, arm, cls, i + 1,
                          AnalisarCliente(g_sem, g_com, arm, cls[i], acc))

\* analise['impacto_falhas'][chave] = valor
DictSet(d, chave, valor) ==
    [x \in (DOMAIN d) \cup {chave} |-> IF x = chave THEN valor ELSE d[x]]

DictVazio == [x \in {} |-> ImpactoZero]

\* Variant of Classificar with `if` in place of `elif`: both tests are made.
ClassificarSemElif(criticas, estrada, impacto) ==
    LET c1 == IF Len(impacto.rotas_impossiveis) > 0
              THEN Append(criticas, [estrada |-> estrada, tipo |-> "CRITICA",
                                     rotas_impossiveis |-> impacto.rotas_impossiveis])
              ELSE criticas
    IN  IF ImpactoPositivo(impacto.impacto_total)
        THEN Append(c1, [estrada |-> estrada, tipo |-> "IMPORTANTE",
                         impacto |-> impacto.impacto_total,
                         rotas_afetadas |-> impacto.rotas_afetadas])
        ELSE c1

\* Lines 291-303: the entry appended to analise['estradas_criticas'], if any.
Classificar(criticas, estrada, impacto) ==
    IF Len(impacto.rotas_impossiveis) > 0
    THEN Append(criticas, [estrada |-> estrada, tipo |-> "CRITICA",
                           rotas_impossiveis |-> impacto.rotas_impossiveis])
    ELSE IF ImpactoPositivo(impacto.impacto_total)
    THEN Append(criticas, [estrada |-> estrada, tipo |-> "IMPORTANTE",
                           impacto |-> impacto.impacto_total,
                           rotas_afetadas |-> impacto.rotas_afetadas])
    ELSE criticas

\* Variant of AnalisarEstrada that goes on to the next road without putting
\* this one back when a route became impossible.
AnalisarEstradaSemRepor(g, arm, cls, estrada, analise) ==
    LET origem == estrada[1]
        destino == estrada[2]
        custo_original == g.custo[<<origem, destino>>]
        g_sem == RemoveEdge(g, origem, destino)
        impacto == AnalisarClientes(g_sem, g, arm, cls, 1,
                       [impacto_total |-> ImpactoZero, rotas_afetadas |-> << >>,
                        rotas_impossiveis |-> << >>])
    IN  [g |-> IF Len(impacto.rotas_impossiveis) > 0 THEN g_sem
               ELSE AddEdge(g_sem, origem, destino, custo_original),
         analise |->
             [estradas_criticas |->
                  Classificar(analise.estradas_criticas, estrada, impacto),
              impacto_falhas |-> DictSet(analise.impacto_falhas, estrada, impacto)]]

\* One iteration of `for origem, destino in estradas` (lines 260-309): the
\* graph after the road is put back, and the analysis with its entries.
AnalisarEstrada(g, arm, cls, estrada, analise) ==
    LET origem == estrada[1]
        destino == estrada[2]
        custo_original == g.custo[<<origem, destino>>]
        g_sem == RemoveEdge(g, origem, destino)
        impacto == AnalisarClientes(g_sem, g, arm, cls, 1,
                       [impacto_total |-> ImpactoZero, rotas_afetadas |-> << >>,
                        rotas_impossiveis |-> << >>])
    IN  [g |-> AddEdge(g_sem, origem, destino, custo_original),
         analise |->
             [estradas_criticas |->
                  Classificar(analise.estradas_criticas, estrada, impacto),
              impacto_falhas |-> DictSet(analise.impacto_falhas, estrada, impacto)]]

RECURSIVE AnalisarEstradas(_, _, _, _, _, _)
AnalisarEstradas(g, arm, cls, estradas, i, analise) ==
    IF i > Len(estradas) THEN [g |-> g, analise |-> analise]
    ELSE LET r == AnalisarEstrada(g, arm, cls, estradas[i], analise)
         IN  AnalisarEstradas(r.g, arm, cls, estradas, i + 1, r.analise)

\* The nodes other than the warehouse with both in- and out-degree 1.
CidadesCriticasGrauDuplo(g, arm) ==
    LET risco(n) == n # arm /\ (InDegree(g, n) = 1 /\ OutDegree(g, n) = 1)
    IN  [k \in 1..Len(SelectSeq(g.nos, risco)) |->
            LET n == SelectSeq(g.nos, risco)[k]
            IN  [cidade |-> n, grau_entrada |-> InDegree(g, n),
                 grau_saida |-> OutDegree(g, n)]]

\* Lines 313-327: the nodes other than the warehouse with in- or out-degree 1.
CidadesCriticas(g, arm) ==
    LET risco(n) == n # arm /\ (InDegree(g, n) = 1 \/ OutDegree(g, n) = 1)
    IN  [k \in 1..Len(SelectSeq(g.nos, risco)) |->
            LET n == SelectSeq(g.nos, risco)[k]
            IN  [cidade |-> n, grau_entrada |-> InDegree(g, n),
                 grau_saida |-> OutDegree(g, n)]]

\* The graph analisar_robustez leaves and the dictionary it returns.
AnalisarRobustez(g, arm, cls) ==
    LET r == AnalisarEstradas(g, arm, cls, Edges(g), 1,
                 [estradas_criticas |-> << >>, impacto_falhas |-> DictVazio])
    IN  [g |-> r.g,
         analise |-> [estradas_criticas |-> r.analise.estradas_criticas,
                      cidades_criticas |-> CidadesCriticas(r.g, arm),
                      impacto_falhas |-> r.analise.impacto_falhas]]

VARIABLES grafo, armazem, clientes, grafo_backup, ret, antes, antes_falha,
          estrada_falha, chamada, tarefas, copias, interface

vars == <<grafo, armazem, clientes, grafo_backup, ret, antes, antes_falha,
          estrada_falha, chamada, tarefas, copias, interface>>

\* The part of the object a call can change, kept to compare before and after.
Rede == [grafo |-> grafo, armazem |-> armazem, clientes |-> clientes]

SemBackup == [valido |-> FALSE, g |-> GrafoVazio]

\* estrada_falha, the road whose failure the caller simulates, when it
\* simulates none.
SemEstrada == <<Nenhum, Nenhum>>

\* chamada, the search in progress, when no search is in progress.
SemChamada == [op |-> Nenhum]

\* The callers that may have a call of analisar_robustez in progress on the
\* one model.
Tarefas == {"t1", "t2"}

\* tarefas[t], the call of analisar_robustez of the caller t, when t has no
\* call in progress.
SemTarefa == [pc |-> "ocioso"]

\* The cities InterfaceRotas offers (cidades_predefinidas) and the roads it
\* builds (estradas_predefinidas), on the cities of the model: a warehouse,
\* an intermediate city and a customer, a direct road and a route through
\* the intermediate city, and a pair of opposite roads.
CidadesPredefinidas ==
    [armazem |-> "A", intermediarias |-> <<"B">>, clientes |-> <<"C">>]

EstradasPredefinidas ==
    <<<<"A", "B", 10>>, <<"A", "C", 30>>, <<"B", "C", 5>>, <<"C", "B", 5>>>>

\* InterfaceRotas after __init__: no graph generated, no road broken, no
\* backup, the warehouse and the first customer selected, no route shown.
SemGrafo ==
    [grafo_gerado |-> FALSE, estradas_quebradas |-> << >>,
     grafo_backup |-> GrafoVazio,
     origem |-> CidadesPredefinidas.armazem,
     destino |-> CidadesPredefinidas.clientes[1],
     rota |-> NaoEncontrado]

Init ==
    /\ grafo = GrafoVazio
    /\ armazem = Nenhum
    /\ clientes = << >>
    /\ grafo_backup = SemBackup
    /\ ret = [op |-> "init"]
    /\ antes = [grafo |-> GrafoVazio, armazem |-> Nenhum, clientes |-> << >>]
    /\ antes_falha = GrafoVazio
    /\ estrada_falha = SemEstrada
    /\ chamada = SemChamada
    /\ tarefas = [t \in Tarefas |-> SemTarefa]
    /\ copias = << >>
    /\ interface = SemGrafo

\* Variant of AdicionarCidade whose roster takes a customer only once.
AdicionarCidadeSemRepetir(nome, tipo) ==
    /\ tipo = "cliente" => Len(clientes) < MaxClientes
    /\ grafo' = AddNode(grafo, nome, tipo)
    /\ armazem' = IF tipo = "armazem" THEN nome ELSE armazem
    /\ clientes' = IF tipo = "cliente" /\ ~InSeq(clientes, nome)
                   THEN Append(clientes, nome) ELSE clientes
    /\ ret' = [op |-> "adicionar_cidade", nome |-> nome, tipo |-> tipo]
    /\ antes' = Rede
    /\ UNCHANGED <<grafo_backup, antes_falha,
                   estrada_falha, chamada, tarefas, copias,
                   interface>>

AdicionarCidade(nome, tipo) ==
    /\ tipo = "cliente" => Len(clientes) < MaxClientes
    /\ grafo' = AddNode(grafo, nome, tipo)
    /\ armazem' = IF tipo = "armazem" THEN nome ELSE armazem
    /\ clientes' = IF tipo = "cliente" THEN Append(clientes, nome) ELSE clientes
    /\ ret' = [op |-> "adicionar_cidade", nome |-> nome, tipo |-> tipo]
    /\ antes' = Rede
    /\ UNCHANGED <<grafo_backup, antes_falha,
                   estrada_falha, chamada, tarefas, copias,
                   interface>>

AdicionarEstrada(u, v, c) ==
    /\ HasEdge(grafo, u, v) \/ NumberOfEdges(grafo) < MaxEstradas
    /\ grafo' = AddEdge(grafo, u, v, c)
    /\ ret' = [op |-> "adicionar_estrada", origem |-> u, destino |-> v, custo |-> c]
    /\ antes' = Rede
    /\ UNCHANGED <<armazem, clientes, grafo_backup, antes_falha,
                   estrada_falha, chamada, tarefas, copias,
                   interface>>

\* Variant of ConsultarCaminhoMinimo that adds the endpoints it does not know
\* to the graph before it answers.
ConsultarCriandoCidades(origem, destino) ==
    /\ grafo' = AddNodeSemTipo(AddNodeSemTipo(grafo, origem), destino)
    /\ ret' = [op |-> "calcular_caminho_minimo_manual", origem |-> origem,
               destino |-> destino,
               valor |-> CalcularCaminhoMinimoManual(grafo, origem, destino)]
    /\ antes' = Rede
    /\ UNCHANGED <<armazem, clientes, grafo_backup, antes_falha,
                   estrada_falha, chamada, tarefas, copias,
                   interface>>

ConsultarCaminhoMinimo(origem, destino) ==
    /\ ret' = [op |-> "calcular_caminho_minimo_manual", origem |-> origem,
               destino |-> destino,
               valor |-> CalcularCaminhoMinimoManual(grafo, origem, destino)]
    /\ antes' = Rede
    /\ UNCHANGED <<grafo, armazem, clientes, grafo_backup, antes_falha,
                   estrada_falha, chamada, tarefas, copias,
                   interface>>

ConsultarRotas(origem, destino) ==
    /\ ret' = [op |-> "comparar_rotas", origem |-> origem, destino |-> destino,
               valor |-> CompararRotas(grafo, origem, destino)]
    /\ antes' = Rede
    /\ UNCHANGED <<grafo, armazem, clientes, grafo_backup, antes_falha,
                   estrada_falha, chamada, tarefas, copias,
                   interface>>

\* Variant of SimularFalhaEstrada whose backup is the graph object itself and
\* not a copy of it: the removal shows in the backup too.
SimularFalhaSemCopia(cidade_origem, cidade_destino) ==
    /\ IF HasEdge(grafo, cidade_origem, cidade_destino)
       THEN /\ grafo' = RemoveEdge(grafo, cidade_origem, cidade_destino)
            /\ grafo_backup' = [valido |-> TRUE, g |-> grafo']
       ELSE /\ grafo' = grafo
            /\ grafo_backup' = SemBackup
    /\ ret' = [op |-> "simular_falha_estrada", origem |-> cidade_origem,
               destino |-> cidade_destino,
               removida |-> HasEdge(grafo, cidade_origem, cidade_destino)]
    /\ antes' = Rede
    /\ antes_falha' = IF HasEdge(grafo, cidade_origem, cidade_destino)
                      THEN grafo ELSE GrafoVazio
    /\ estrada_falha' = IF HasEdge(grafo, cidade_origem, cidade_destino)
                        THEN <<cidade_origem, cidade_destino>> ELSE SemEstrada
    /\ UNCHANGED <<armazem, clientes, chamada, tarefas, copias, interface>>

\* The caller keeps the returned backup (None when the road does not exist).
SimularFalhaEstrada(cidade_origem, cidade_destino) ==
    /\ IF HasEdge(grafo, cidade_origem, cidade_destino)
       THEN /\ grafo' = RemoveEdge(grafo, cidade_origem, cidade_destino)
            /\ grafo_backup' = [valido |-> TRUE, g |-> grafo]
       ELSE /\ grafo' = grafo
            /\ grafo_backup' = SemBackup
    /\ ret' = [op |-> "simular_falha_estrada", origem |-> cidade_origem,
               destino |-> cidade_destino,
               removida |-> HasEdge(grafo, cidade_origem, cidade_destino)]
    /\ antes' = Rede
    /\ antes_falha' = IF HasEdge(grafo, cidade_origem, cidade_destino)
                      THEN grafo ELSE GrafoVazio
    /\ estrada_falha' = IF HasEdge(grafo, cidade_origem, cidade_destino)
                        THEN <<cidade_origem, cidade_destino>> ELSE SemEstrada
    /\ UNCHANGED <<armazem, clientes, chamada, tarefas, copias, interface>>

\* Variant of RestaurarGrafo without the test `if grafo_backup`: the graph
\* becomes whatever the caller passes.
RestaurarSemTeste ==
    /\ grafo' = grafo_backup.g
    /\ grafo_backup' = SemBackup
    /\ ret' = [op |-> "restaurar_grafo", backup |-> grafo_backup.valido,
               antes_falha |-> antes_falha]
    /\ antes' = Rede
    /\ antes_falha' = GrafoVazio
    /\ estrada_falha' = SemEstrada
    /\ UNCHANGED <<armazem, clientes, chamada, tarefas, copias, interface>>

\* restaurar_grafo(grafo_backup) with the backup the caller holds; `if
\* grafo_backup` is false for None and for a graph without nodes.
RestaurarGrafo ==
    /\ grafo' = IF grafo_backup.valido /\ Len(grafo_backup.g.nos) > 0
                THEN grafo_backup.g ELSE grafo
    /\ grafo_backup' = SemBackup
    /\ ret' = [op |-> "restaurar_grafo", backup |-> grafo_backup.valido,
               antes_falha |-> antes_falha]
    /\ antes' = Rede
    /\ antes_falha' = GrafoVazio
    /\ estrada_falha' = SemEstrada
    /\ UNCHANGED <<armazem, clientes, chamada, tarefas, copias, interface>>

ChamarAnalisarRobustez ==
    LET r == AnalisarRobustez(grafo, armazem, clientes)
    IN  /\ grafo' = r.g
        /\ ret' = [op |-> "analisar_robustez", valor |-> r.analise]
        /\ antes' = Rede
        /\ UNCHANGED <<armazem, clientes, grafo_backup, antes_falha,
                       estrada_falha, chamada, tarefas, copias,
                       interface>>

\* The roads whose failure the model simulates (executar_parte_3 simulates
\* the failure of one fixed road out of the warehouse).
ParesFalha == {<<e[1], e[2]>> : e \in EstradasEntrada}

\* Between a failure simulation and its restoration the callers in the
\* source (executar_parte_3, executar_parte_4) only query the model.
JanelaAberta == grafo_backup.valido

\* The model is built and queried.
Next ==
    \/ \E e \in CidadesEntrada : AdicionarCidade(e[1], e[2])
    \/ \E e \in EstradasEntrada : AdicionarEstrada(e[1], e[2], e[3])
    \/ \E o \in Cidades, d \in Cidades : ConsultarCaminhoMinimo(o, d)
    \/ \E o \in Cidades, d \in Cidades : ConsultarRotas(o, d)

Spec == Init /\ [][Next]_vars

\* The model is built, and failures of roads are simulated and restored as
\* executar_parte_3 does: simulation, minimum-cost queries, restoration.
NextFalha ==
    \/ ~JanelaAberta /\ \E e \in CidadesEntrada : AdicionarCidade(e[1], e[2])
    \/ ~JanelaAberta /\ \E e \in EstradasEntrada : AdicionarEstrada(e[1], e[2], e[3])
    \/ ~JanelaAberta /\ \E p \in ParesFalha : SimularFalhaEstrada(p[1], p[2])
    \/ JanelaAberta /\ \E o \in Cidades, d \in Cidades : ConsultarCaminhoMinimo(o, d)
    \/ RestaurarGrafo

SpecFalha == Init /\ [][NextFalha]_vars

\* The model is built and its robustness is analysed.
NextRobustez ==
    \/ \E e \in CidadesEntrada : AdicionarCidade(e[1], e[2])
    \/ \E e \in EstradasEntrada : AdicionarEstrada(e[1], e[2], e[3])
    \/ ChamarAnalisarRobustez

SpecRobustez == Init /\ [][NextRobustez]_vars

\* The cities and roles of a construction in which any city may be given
\* any role, the warehouse role more than once.
CidadesConstrucao == {"A", "B"} \X {"armazem", "intermediaria", "cliente"}

\* The roads of such a construction: between cities added or not, one of
\* them with two costs.
EstradasConstrucao == {<<"A", "C", 30>>, <<"A", "C", 15>>, <<"C", "B", 5>>}

\* The model is built: cities are added in any role and order, and roads
\* between cities added or not.
NextConstrucao ==
    \/ \E e \in CidadesConstrucao : AdicionarCidade(e[1], e[2])
    \/ \E e \in EstradasConstrucao : AdicionarEstrada(e[1], e[2], e[3])

SpecConstrucao == Init /\ [][NextConstrucao]_vars

(***************************************************************************)
(* The depth-first search step by step: chamada holds the activation       *)
(* records of dfs (pilha, the innermost last) and the objects the          *)
(* activations share (caminho_atual, visitados, caminhos_encontrados). A   *)
(* record is [atual, custo, i]: i = 0 before the test atual == destino,    *)
(* and i >= 1 when the loop is at the i-th successor of atual.             *)
(***************************************************************************)
EmCurso == chamada.op # Nenhum

Topo == chamada.pilha[Len(chamada.pilha)]

\* dfs(origem, destino, [origem], 0, set()) is called.
ChamadaInicial(op, origem, destino) ==
    [op |-> op, origem |-> origem, destino |-> destino,
     caminho_atual |-> <<origem>>, visitados |-> {},
     caminhos_encontrados |-> << >>,
     pilha |-> <<[atual |-> origem, custo |-> 0, i |-> 0]>>]

\* An activation returns: its record goes, and the activation that called
\* it, if there is one, executes caminho_atual.pop().
RetornarDoDfs(c) ==
    [c EXCEPT !.pilha = SubSeq(@, 1, Len(@) - 1),
              !.caminho_atual = IF Len(c.pilha) > 1
                                THEN SubSeq(@, 1, Len(@) - 1) ELSE @]

\* The top record with its loop moved to the next successor.
ProximoVizinho(c) == [c EXCEPT !.pilha[Len(c.pilha)].i = @ + 1]

\* calcular_caminho_minimo_manual is called: it returns at once for an
\* unknown endpoint and for origem == destino, and starts the search
\* otherwise.
IniciarCaminhoMinimo(origem, destino) ==
    /\ ~EmCurso
    /\ antes' = Rede
    /\ IF ~HasNode(grafo, origem) \/ ~HasNode(grafo, destino) \/ origem = destino
       THEN /\ ret' = [op |-> "calcular_caminho_minimo_manual",
                       origem |-> origem, destino |-> destino,
                       valor |-> IF origem = destino /\ HasNode(grafo, origem)
                                 THEN [achou |-> TRUE, caminho |-> <<origem>>,
                                       custo |-> 0]
                                 ELSE NaoEncontrado]
            /\ UNCHANGED chamada
       ELSE /\ ret' = [op |-> "em_curso"]
            /\ chamada' = ChamadaInicial("calcular_caminho_minimo_manual",
                                         origem, destino)
    /\ UNCHANGED <<grafo, armazem, clientes, grafo_backup, antes_falha,
                   estrada_falha, tarefas, copias, interface>>

\* comparar_rotas is called: it starts the search whatever the arguments.
IniciarRotas(origem, destino) ==
    /\ ~EmCurso
    /\ antes' = Rede
    /\ ret' = [op |-> "em_curso"]
    /\ chamada' = ChamadaInicial("comparar_rotas", origem, destino)
    /\ UNCHANGED <<grafo, armazem, clientes, grafo_backup, antes_falha,
                   estrada_falha, tarefas, copias, interface>>

\* if atual == destino: the path is recorded and the activation returns.
DfsAchar ==
    /\ EmCurso /\ Len(chamada.pilha) > 0
    /\ Topo.i = 0 /\ Topo.atual = chamada.destino
    /\ chamada' = RetornarDoDfs(
           [chamada EXCEPT !.caminhos_encontrados =
                Append(@, <<chamada.caminho_atual, Topo.custo>>)])
    /\ UNCHANGED <<grafo, armazem, clientes, grafo_backup, ret, antes,
                   antes_falha, estrada_falha, tarefas, copias,
                   interface>>

\* visitados.add(atual), and the loop over the successors of atual begins.
DfsEntrar ==
    /\ EmCurso /\ Len(chamada.pilha) > 0
    /\ Topo.i = 0 /\ Topo.atual # chamada.destino
    /\ HasNode(grafo, Topo.atual)
    /\ chamada' = ProximoVizinho(
           [chamada EXCEPT !.visitados = @ \cup {Topo.atual}])
    /\ UNCHANGED <<grafo, armazem, clientes, grafo_backup, ret, antes,
                   antes_falha, estrada_falha, tarefas, copias,
                   interface>>

\* self.grafo.successors(atual) raises NetworkXError for a node that is not
\* in the graph: the call ends with the exception.
DfsErro ==
    /\ EmCurso /\ Len(chamada.pilha) > 0
    /\ Topo.i = 0 /\ Topo.atual # chamada.destino
    /\ ~HasNode(grafo, Topo.atual)
    /\ ret' = [op |-> chamada.op, origem |-> chamada.origem,
               destino |-> chamada.destino,
               valor |-> [erro |-> TRUE, rotas |-> << >>]]
    /\ chamada' = SemChamada
    /\ UNCHANGED <<grafo, armazem, clientes, grafo_backup, antes,
                   antes_falha, estrada_falha, tarefas, copias,
                   interface>>

\* The successor is not in visitados: it is appended to caminho_atual and
\* dfs is called for it.
DfsDescer ==
    /\ EmCurso /\ Len(chamada.pilha) > 0
    /\ Topo.i \in 1..Len(grafo.succ[Topo.atual])
    /\ LET vizinho == grafo.succ[Topo.atual][Topo.i]
           custo_aresta == grafo.custo[<<Topo.atual, vizinho>>]
       IN  /\ vizinho \notin chamada.visitados
           /\ chamada' =
                  [ProximoVizinho(chamada) EXCEPT
                       !.caminho_atual = Append(@, vizinho),
                       !.pilha = Append(@, [atual |-> vizinho,
                                            custo |-> Topo.custo + custo_aresta,
                                            i |-> 0])]
    /\ UNCHANGED <<grafo, armazem, clientes, grafo_backup, ret, antes,
                   antes_falha, estrada_falha, tarefas, copias,
                   interface>>

\* The successor is in visitados: the loop goes on to the next one.
DfsPular ==
    /\ EmCurso /\ Len(chamada.pilha) > 0
    /\ Topo.i \in 1..Len(grafo.succ[Topo.atual])
    /\ grafo.succ[Topo.atual][Topo.i] \in chamada.visitados
    /\ chamada' = ProximoVizinho(chamada)
    /\ UNCHANGED <<grafo, armazem, clientes, grafo_backup, ret, antes,
                   antes_falha, estrada_falha, tarefas, copias,
                   interface>>

\* The loop is over: visitados.remove(atual), and the activation returns.
DfsSair ==
    /\ EmCurso /\ Len(chamada.pilha) > 0
    /\ Topo.i > Len(grafo.succ[Topo.atual])
    /\ chamada' = RetornarDoDfs(
           [chamada EXCEPT !.visitados = @ \ {Topo.atual}])
    /\ UNCHANGED <<grafo, armazem, clientes, grafo_backup, ret, antes,
                   antes_falha, estrada_falha, tarefas, copias,
                   interface>>

\* The search of calcular_caminho_minimo_manual is over: (None, None) or
\* the first cheapest path recorded.
RetornarCaminhoMinimo ==
    /\ EmCurso /\ Len(chamada.pilha) = 0
    /\ chamada.op = "calcular_caminho_minimo_manual"
    /\ ret' = [op |-> chamada.op, origem |-> chamada.origem,
               destino |-> chamada.destino,
               valor |-> IF Len(chamada.caminhos_encontrados) = 0
                         THEN NaoEncontrado
                         ELSE LET m == MinPorCusto(chamada.caminhos_encontrados)
                              IN  [achou |-> TRUE, caminho |-> m[1],
                                   custo |-> m[2]]]
    /\ chamada' = SemChamada
    /\ UNCHANGED <<grafo, armazem, clientes, grafo_backup, antes,
                   antes_falha, estrada_falha, tarefas, copias,
                   interface>>

\* The search of comparar_rotas is over: the paths recorded, sorted by cost.
RetornarRotas ==
    /\ EmCurso /\ Len(chamada.pilha) = 0
    /\ chamada.op = "comparar_rotas"
    /\ ret' = [op |-> chamada.op, origem |-> chamada.origem,
               destino |-> chamada.destino,
               valor |-> [erro |-> FALSE,
                          rotas |-> OrdenarPorCusto(chamada.caminhos_encontrados)]]
    /\ chamada' = SemChamada
    /\ UNCHANGED <<grafo, armazem, clientes, grafo_backup, antes,
                   antes_falha, estrada_falha, tarefas, copias,
                   interface>>

\* One step of the search in progress.
PassoDfs ==
    \/ DfsAchar
    \/ DfsEntrar
    \/ DfsErro
    \/ DfsDescer
    \/ DfsPular
    \/ DfsSair
    \/ RetornarCaminhoMinimo
    \/ RetornarRotas

\* Roads are added and the two path queries are followed step by step; a
\* query runs to its end before anything else is called.
NextDfs ==
    \/ ~EmCurso /\ \E e \in EstradasEntrada : AdicionarEstrada(e[1], e[2], e[3])
    \/ \E o \in Cidades, d \in Cidades : IniciarCaminhoMinimo(o, d)
    \/ \E o \in Cidades, d \in Cidades : IniciarRotas(o, d)
    \/ PassoDfs

SpecDfs == Init /\ [][NextDfs]_vars

\* The same, where a search in progress keeps taking steps: the call is one
\* sequential computation.
SpecDfsJusta == SpecDfs /\ WF_vars(PassoDfs)

(***************************************************************************)
(* analisar_robustez step by step: tarefas[t] is the call of the caller t, *)
(* with the locals of the call (estradas, the index i of the road of the   *)
(* current iteration, custo_original, the impact computed for the road,    *)
(* analise) and the graph at the start of the call.                        *)
(***************************************************************************)
Analisando(t) == tarefas[t].pc # "ocioso"

\* The road of the current iteration of the call of t.
EstradaAtual(t) == tarefas[t].estradas[tarefas[t].i]

\* impacto_total, rotas_afetadas and rotas_impossiveis at lines 266-268
ImpactoInicial ==
    [impacto_total |-> ImpactoZero, rotas_afetadas |-> << >>,
     rotas_impossiveis |-> << >>]

\* Lines 250-258: the report is empty and the roads are listed.
IniciarAnalise(t) ==
    /\ ~Analisando(t)
    /\ tarefas' = [tarefas EXCEPT ![t] =
           [pc |-> "remover", estradas |-> Edges(grafo), i |-> 1,
            custo_original |-> SemCusto, impacto |-> ImpactoInicial,
            analise |-> [estradas_criticas |-> << >>,
                         impacto_falhas |-> DictVazio],
            inicial |-> grafo]]
    /\ ret' = [op |-> "em_curso"]
    /\ antes' = Rede
    /\ UNCHANGED <<grafo, armazem, clientes, grafo_backup, antes_falha,
                   estrada_falha, chamada, copias, interface>>

\* Variant of RemoverEstrada that works on a copy of the graph private to
\* the call: the shared graph keeps the road.
RemoverEmCopia(t) ==
    /\ tarefas[t].pc = "remover"
    /\ tarefas[t].i <= Len(tarefas[t].estradas)
    /\ HasEdge(grafo, EstradaAtual(t)[1], EstradaAtual(t)[2])
    /\ tarefas' = [tarefas EXCEPT ![t].pc = "consultar",
                                  ![t].custo_original = grafo.custo[EstradaAtual(t)]]
    /\ UNCHANGED <<grafo, armazem, clientes, grafo_backup, ret, antes,
                   antes_falha, estrada_falha, chamada, copias,
                   interface>>

\* Lines 262-263: the cost of the road is saved and the road is removed.
RemoverEstrada(t) ==
    /\ tarefas[t].pc = "remover"
    /\ tarefas[t].i <= Len(tarefas[t].estradas)
    /\ HasEdge(grafo, EstradaAtual(t)[1], EstradaAtual(t)[2])
    /\ grafo' = RemoveEdge(grafo, EstradaAtual(t)[1], EstradaAtual(t)[2])
    /\ tarefas' = [tarefas EXCEPT ![t].pc = "consultar",
                                  ![t].custo_original = grafo.custo[EstradaAtual(t)]]
    /\ UNCHANGED <<armazem, clientes, grafo_backup, ret, antes, antes_falha,
                   estrada_falha, chamada, copias, interface>>

\* Line 262 for a road that is no longer in the graph: self.grafo[origem]
\* [destino] raises KeyError and the call ends with the exception.
FalharRemocao(t) ==
    /\ tarefas[t].pc = "remover"
    /\ tarefas[t].i <= Len(tarefas[t].estradas)
    /\ ~HasEdge(grafo, EstradaAtual(t)[1], EstradaAtual(t)[2])
    /\ tarefas' = [tarefas EXCEPT ![t] = SemTarefa]
    /\ ret' = [op |-> "erro", em |-> "analisar_robustez", tarefa |-> t,
               estrada |-> EstradaAtual(t), inicial |-> tarefas[t].inicial]
    /\ UNCHANGED <<grafo, armazem, clientes, grafo_backup, antes, antes_falha,
                   estrada_falha, chamada, copias, interface>>

\* Lines 266-285: the routes to the customers are computed on the graph as
\* it is now.
ConsultarClientes(t) ==
    /\ tarefas[t].pc = "consultar"
    /\ tarefas' = [tarefas EXCEPT
           ![t].pc = "repor",
           ![t].impacto =
               AnalisarClientes(grafo,
                                AddEdge(grafo, EstradaAtual(t)[1],
                                        EstradaAtual(t)[2],
                                        tarefas[t].custo_original),
                                armazem, clientes, 1, ImpactoInicial)]
    /\ UNCHANGED <<grafo, armazem, clientes, grafo_backup, ret, antes,
                   antes_falha, estrada_falha, chamada, copias,
                   interface>>

\* A path query of lines 272-276 raises (RecursionError on a long path,
\* KeyError on a road without 'custo', KeyboardInterrupt): nothing between
\* line 263 and line 288 catches it, and the call ends with the exception.
FalharConsulta(t) ==
    /\ tarefas[t].pc = "consultar"
    /\ tarefas' = [tarefas EXCEPT ![t] = SemTarefa]
    /\ ret' = [op |-> "erro", em |-> "analisar_robustez", tarefa |-> t,
               estrada |-> EstradaAtual(t), inicial |-> tarefas[t].inicial]
    /\ UNCHANGED <<grafo, armazem, clientes, grafo_backup, antes, antes_falha,
                   estrada_falha, chamada, copias, interface>>

\* Variant of ReporEstrada without line 288: the road is classified and the
\* loop goes on, the road is not put back.
ReporSemAdicionar(t) ==
    /\ tarefas[t].pc = "repor"
    /\ tarefas' = [tarefas EXCEPT
           ![t].pc = "remover",
           ![t].i = @ + 1,
           ![t].impacto = ImpactoInicial,
           ![t].custo_original = SemCusto,
           ![t].analise =
               [estradas_criticas |->
                    Classificar(tarefas[t].analise.estradas_criticas,
                                EstradaAtual(t), tarefas[t].impacto),
                impacto_falhas |->
                    DictSet(tarefas[t].analise.impacto_falhas,
                            EstradaAtual(t), tarefas[t].impacto)]]
    /\ UNCHANGED <<grafo, armazem, clientes, grafo_backup, ret, antes,
                   antes_falha, estrada_falha, chamada, copias,
                   interface>>

\* Lines 288-309: the road is put back with the saved cost, it is
\* classified, its impact is recorded, and the loop goes on.
ReporEstrada(t) ==
    /\ tarefas[t].pc = "repor"
    /\ grafo' = AddEdge(grafo, EstradaAtual(t)[1], EstradaAtual(t)[2],
                        tarefas[t].custo_original)
    /\ tarefas' = [tarefas EXCEPT
           ![t].pc = "remover",
           ![t].i = @ + 1,
           ![t].impacto = ImpactoInicial,
           ![t].custo_original = SemCusto,
           ![t].analise =
               [estradas_criticas |->
                    Classificar(tarefas[t].analise.estradas_criticas,
                                EstradaAtual(t), tarefas[t].impacto),
                impacto_falhas |->
                    DictSet(tarefas[t].analise.impacto_falhas,
                            EstradaAtual(t), tarefas[t].impacto)]]
    /\ UNCHANGED <<armazem, clientes, grafo_backup, ret, antes, antes_falha,
                   estrada_falha, chamada, copias, interface>>

\* Lines 311-345: the loop is over, the cut-risk cities are listed on the
\* graph as it is now and the report is returned.
ConcluirAnalise(t) ==
    /\ tarefas[t].pc = "remover"
    /\ tarefas[t].i > Len(tarefas[t].estradas)
    /\ tarefas' = [tarefas EXCEPT ![t] = SemTarefa]
    /\ ret' = [op |-> "analisar_robustez", tarefa |-> t,
               inicial |-> tarefas[t].inicial,
               valor |-> [estradas_criticas |->
                              tarefas[t].analise.estradas_criticas,
                          cidades_criticas |-> CidadesCriticas(grafo, armazem),
                          impacto_falhas |-> tarefas[t].analise.impacto_falhas]]
    /\ UNCHANGED <<grafo, armazem, clientes, grafo_backup, antes, antes_falha,
                   estrada_falha, chamada, copias, interface>>

\* One step of the call of t that does not fail.
PassoAnalise(t) ==
    \/ RemoverEstrada(t)
    \/ ConsultarClientes(t)
    \/ ReporEstrada(t)
    \/ ConcluirAnalise(t)

\* The model is built and analysed by one caller, the analysis followed
\* step by step; the call runs to its end before anything else is called.
NextAnalisePasso ==
    \/ ~Analisando("t1") /\ \E e \in CidadesEntrada : AdicionarCidade(e[1], e[2])
    \/ ~Analisando("t1")
       /\ \E e \in EstradasEntrada : AdicionarEstrada(e[1], e[2], e[3])
    \/ IniciarAnalise("t1")
    \/ PassoAnalise("t1")

SpecAnalisePasso == Init /\ [][NextAnalisePasso]_vars

\* visualizar_grafo raises between simular_falha_estrada and restaurar_grafo
\* (plt.savefig on a file that cannot be written, a backend without
\* display): executar_parte_3 and executar_parte_4 have no try/finally, the
\* exception leaves them and the backup they held is lost with their frame.
FalharVisualizacao ==
    /\ JanelaAberta
    /\ grafo_backup' = SemBackup
    /\ ret' = [op |-> "erro", em |-> "visualizar_grafo", tarefa |-> Nenhum,
               estrada |-> estrada_falha, inicial |-> antes_falha]
    /\ antes' = Rede
    /\ antes_falha' = GrafoVazio
    /\ estrada_falha' = SemEstrada
    /\ UNCHANGED <<grafo, armazem, clientes, chamada, tarefas, copias, interface>>

\* A failure-simulation window is open: that of executar_parte_3 or that of
\* an iteration of analisar_robustez.
EmJanela == JanelaAberta \/ Analisando("t1")

\* The model is built, failures are simulated and restored and the model is
\* analysed, and a step inside a window may raise.
NextExcecao ==
    \/ ~EmJanela /\ \E e \in CidadesEntrada : AdicionarCidade(e[1], e[2])
    \/ ~EmJanela /\ \E e \in EstradasEntrada : AdicionarEstrada(e[1], e[2], e[3])
    \/ ~EmJanela /\ \E p \in ParesFalha : SimularFalhaEstrada(p[1], p[2])
    \/ JanelaAberta /\ RestaurarGrafo
    \/ FalharVisualizacao
    \/ ~EmJanela /\ IniciarAnalise("t1")
    \/ PassoAnalise("t1")
    \/ FalharConsulta("t1")

SpecExcecao == Init /\ [][NextExcecao]_vars

\* The calls of analisar_robustez that hold a road removed, and the roads
\* they hold.
NaJanela(t) == tarefas[t].pc \in {"consultar", "repor"}

EstradasRetidas == {EstradaAtual(t) : t \in {u \in Tarefas : NaJanela(u)}}

\* The roads of the model the two callers share: the documented scenario.
EstradasIntercalada == {<<"A", "B", 10>>, <<"B", "C", 5>>, <<"A", "C", 30>>}

\* Its cities with a role: the warehouse A and the customer C.
CidadesIntercalada == {<<"A", "armazem">>, <<"C", "cliente">>}

\* The model is still being built: nothing but adicionar_cidade and
\* adicionar_estrada has been called.
EmConstrucao == ret.op \in {"init", "adicionar_cidade", "adicionar_estrada"}

\* Two callers share the model and nothing orders their calls (the class
\* has no lock): the steps of two analyses interleave, and a path query
\* runs between two steps of an analysis. The model is built before the
\* callers share it; the first caller starts when no call is in progress
\* and the second when it finds the call of the first in progress.
NextIntercalada ==
    \/ /\ EmConstrucao
       /\ \E e \in CidadesIntercalada : AdicionarCidade(e[1], e[2])
    \/ /\ EmConstrucao
       /\ \E e \in EstradasIntercalada : AdicionarEstrada(e[1], e[2], e[3])
    \/ ~Analisando("t2") /\ IniciarAnalise("t1")
    \/ Analisando("t1") /\ IniciarAnalise("t2")
    \/ \E t \in Tarefas : PassoAnalise(t)
    \/ \E t \in Tarefas : FalharRemocao(t)
    \/ /\ \E t \in Tarefas : NaJanela(t)
       /\ \E k \in 1..Len(clientes) : ConsultarCaminhoMinimo(armazem, clientes[k])

SpecIntercalada == Init /\ [][NextIntercalada]_vars

(***************************************************************************)
(* The backups as objects. copias lists the graph objects the caller got   *)
(* from simular_falha_estrada and still holds. restaurar_grafo binds       *)
(* self.grafo to the backup object itself (line 236), after which the      *)
(* backup and the graph of the model are one object (mesmo) and every       *)
(* later change of the graph is a change of that backup; a backup that is  *)
(* not the graph of the model keeps its own value g. na_chamada records    *)
(* the graph at the call that produced the backup.                        *)
(***************************************************************************)
\* The graph object copias[k] as it is now.
ValorDaCopia(k) == IF copias[k].mesmo THEN grafo ELSE copias[k].g

\* simular_falha_estrada by a caller that keeps every backup it gets.
SimularGuardando(cidade_origem, cidade_destino) ==
    /\ Len(copias) < MaxCopias
    /\ IF HasEdge(grafo, cidade_origem, cidade_destino)
       THEN /\ grafo' = RemoveEdge(grafo, cidade_origem, cidade_destino)
            /\ copias' = Append(copias, [mesmo |-> FALSE, g |-> grafo,
                                         na_chamada |-> grafo])
       ELSE UNCHANGED <<grafo, copias, interface>>
    /\ ret' = [op |-> "simular_falha_estrada", origem |-> cidade_origem,
               destino |-> cidade_destino,
               removida |-> HasEdge(grafo, cidade_origem, cidade_destino)]
    /\ antes' = Rede
    /\ UNCHANGED <<armazem, clientes, grafo_backup, antes_falha, estrada_falha,
                   chamada, tarefas, interface>>

\* restaurar_grafo(copias[k]): self.grafo = grafo_backup, when the backup
\* has a node. The object that was the graph of the model, if the caller
\* holds it as a backup, stays as it is now.
RestaurarCopia(k) ==
    /\ k \in 1..Len(copias)
    /\ IF Len(ValorDaCopia(k).nos) > 0
       THEN /\ grafo' = ValorDaCopia(k)
            /\ copias' = [j \in 1..Len(copias) |->
                   IF j = k
                   THEN [copias[j] EXCEPT !.mesmo = TRUE, !.g = GrafoVazio]
                   ELSE IF copias[j].mesmo
                   THEN [copias[j] EXCEPT !.mesmo = FALSE, !.g = grafo]
                   ELSE copias[j]]
       ELSE UNCHANGED <<grafo, copias, interface>>
    /\ ret' = [op |-> "restaurar_grafo", backup |-> TRUE, copia |-> k,
               antes_falha |-> copias[k].na_chamada]
    /\ antes' = Rede
    /\ UNCHANGED <<armazem, clientes, grafo_backup, antes_falha, estrada_falha,
                   chamada, tarefas, interface>>

\* The roads of the model of the nested simulations, which are the roads
\* whose failure is simulated.
EstradasAninhadas == {<<"A", "B", 10>>, <<"B", "C", 5>>}

ParesAninhados == {<<e[1], e[2]>> : e \in EstradasAninhadas}

\* The model is built and changed at any time, failures are simulated one
\* inside the other, and the backups are restored in any order, any number
\* of times.
NextAninhada ==
    \/ \E e \in CidadesIntercalada : AdicionarCidade(e[1], e[2])
    \/ \E e \in EstradasAninhadas : AdicionarEstrada(e[1], e[2], e[3])
    \/ \E p \in ParesAninhados : SimularGuardando(p[1], p[2])
    \/ \E k \in 1..MaxCopias : RestaurarCopia(k)

SpecAninhada == Init /\ [][NextAninhada]_vars

(***************************************************************************)
(* The robustness plots of the dashboards (dashboard.py,                   *)
(* dashboard_avancado.py). Each removes and puts back the first roads of   *)
(* list(self.rede.grafo.edges()), on the graph of the model itself.        *)
(***************************************************************************)
\* estradas[:5] (dashboard.py) and estradas[:8] (dashboard_avancado.py)
LimiteRobustez == 5

LimiteAnaliseFalhas == 8

\* s[:n]
Fatia(s, n) == SubSeq(s, 1, IF n < Len(s) THEN n ELSE Len(s))

\* rotas_impossiveis of one road of a plot: the customers the warehouse no
\* longer reaches on g, counted once per entry of the roster.
RotasImpossiveis(g, arm, cls) ==
    IF ~Designado(arm) THEN 0
    ELSE Cardinality({i \in 1..Len(cls) :
                         ~CalcularCaminhoMinimoManual(g, arm, cls[i]).achou})

\* aumento_custo_total of one road in dashboard_avancado.py: both routes of
\* a customer are computed on g, the graph without the road.
RECURSIVE AumentoCustoTotal(_, _, _, _)
AumentoCustoTotal(g, arm, cls, i) ==
    IF i > Len(cls) \/ ~Designado(arm) THEN 0
    ELSE LET original == CalcularCaminhoMinimoManual(g, arm, cls[i])
             novo == CalcularCaminhoMinimoManual(g, arm, cls[i])
             diferenca == novo.custo - original.custo
         IN  (IF novo.achou /\ original.achou /\ diferenca > 0
              THEN diferenca ELSE 0)
             + AumentoCustoTotal(g, arm, cls, i + 1)

\* The loop of a plot over its roads: the cost is saved, the road removed,
\* the customers queried, and the road added back with the saved cost. The
\* result is the graph after the loop and the figures of every road.
RECURSIVE PlotarEstradas(_, _, _, _, _, _)
PlotarEstradas(g, arm, cls, estradas, i, lista) ==
    IF i > Len(estradas) THEN [g |-> g, lista |-> lista]
    ELSE LET origem == estradas[i][1]
             destino == estradas[i][2]
             custo_original == g.custo[<<origem, destino>>]
             g_sem == RemoveEdge(g, origem, destino)
         IN  PlotarEstradas(AddEdge(g_sem, origem, destino, custo_original),
                 arm, cls, estradas, i + 1,
                 Append(lista, [estrada |-> estradas[i],
                                rotas_impossiveis |-> RotasImpossiveis(g_sem, arm, cls),
                                aumento |-> AumentoCustoTotal(g_sem, arm, cls, 1)]))

\* The roads a plot lists as critical.
ComRotasImpossiveis(lista) == SelectSeq(lista, LAMBDA x : x.rotas_impossiveis > 0)

\* _plotar_robustez of dashboard.py
PlotarRobustez ==
    LET r == PlotarEstradas(grafo, armazem, clientes,
                            Fatia(Edges(grafo), LimiteRobustez), 1, << >>)
    IN  /\ grafo' = r.g
        /\ ret' = [op |-> "_plotar_robustez",
                   estradas |-> Fatia(Edges(grafo), LimiteRobustez),
                   estradas_criticas |-> ComRotasImpossiveis(r.lista)]
        /\ antes' = Rede
        /\ UNCHANGED <<armazem, clientes, grafo_backup, antes_falha,
                       estrada_falha, chamada, tarefas, copias,
                       interface>>

\* _plotar_analise_falhas of dashboard_avancado.py
PlotarAnaliseFalhas ==
    LET r == PlotarEstradas(grafo, armazem, clientes,
                            Fatia(Edges(grafo), LimiteAnaliseFalhas), 1, << >>)
    IN  /\ grafo' = r.g
        /\ ret' = [op |-> "_plotar_analise_falhas",
                   estradas |-> Fatia(Edges(grafo), LimiteAnaliseFalhas),
                   impactos |-> r.lista]
        /\ antes' = Rede
        /\ UNCHANGED <<armazem, clientes, grafo_backup, antes_falha,
                       estrada_falha, chamada, tarefas, copias,
                       interface>>

\* The roads of the model a dashboard shows, in the order they are added:
\* every road between the three cities and the loops, with two routes
\* C -> A of equal cost (10 = 5 + 5).
RoteiroDoPainel ==
    <<<<"A", "B", 10>>, <<"A", "C", 30>>, <<"B", "C", 5>>, <<"B", "A", 5>>,
      <<"C", "A", 10>>, <<"C", "C", 5>>, <<"C", "B", 5>>, <<"B", "B", 5>>,
      <<"A", "A", 5>>>>

\* adicionar_estrada for the model a dashboard shows, which has more roads
\* than a plot goes through: the next road of the list.
AdicionarEstradaDoPainel(u, v, c) ==
    /\ NumberOfEdges(grafo) < Len(RoteiroDoPainel)
    /\ <<u, v, c>> = RoteiroDoPainel[NumberOfEdges(grafo) + 1]
    /\ grafo' = AddEdge(grafo, u, v, c)
    /\ ret' = [op |-> "adicionar_estrada", origem |-> u, destino |-> v, custo |-> c]
    /\ antes' = Rede
    /\ UNCHANGED <<armazem, clientes, grafo_backup, antes_falha,
                   estrada_falha, chamada, tarefas, copias,
                   interface>>

\* The cities of the model a dashboard shows.
CidadesDoPainel == {<<"C", "armazem">>, <<"A", "cliente">>}

\* The model is built, road after road of the list, and the dashboards plot
\* it at any time.
NextPainel ==
    \/ \E e \in CidadesDoPainel : AdicionarCidade(e[1], e[2])
    \/ \E i \in DOMAIN RoteiroDoPainel :
           AdicionarEstradaDoPainel(RoteiroDoPainel[i][1], RoteiroDoPainel[i][2],
                                    RoteiroDoPainel[i][3])
    \/ PlotarRobustez
    \/ PlotarAnaliseFalhas

SpecPainel == Init /\ [][NextPainel]_vars

(***************************************************************************)
(* The interactive interface (interface_interativa.py). self.rede is the   *)
(* model of the variables grafo, armazem and clientes; interface holds the *)
(* state of InterfaceRotas: grafo_gerado, estradas_quebradas, grafo_backup,*)
(* the origin and the destination selected, and the route it shows.        *)
(***************************************************************************)
\* adicionar_cidade and adicionar_estrada on a model r, as values.
RedeComCidade(r, nome, tipo) ==
    [grafo |-> AddNode(r.grafo, nome, tipo),
     armazem |-> IF tipo = "armazem" THEN nome ELSE r.armazem,
     clientes |-> IF tipo = "cliente" THEN Append(r.clientes, nome) ELSE r.clientes]

RECURSIVE RedeComCidades(_, _, _, _)
RedeComCidades(r, nomes, tipo, i) ==
    IF i > Len(nomes) THEN r
    ELSE RedeComCidades(RedeComCidade(r, nomes[i], tipo), nomes, tipo, i + 1)

RECURSIVE RedeComEstradas(_, _, _)
RedeComEstradas(r, estradas, i) ==
    IF i > Len(estradas) THEN r
    ELSE RedeComEstradas(
             [r EXCEPT !.grafo = AddEdge(@, estradas[i][1], estradas[i][2],
                                         estradas[i][3])],
             estradas, i + 1)

\* The model gerar_grafo builds (lines 231-242).
RedePredefinida ==
    LET vazia == [grafo |-> GrafoVazio, armazem |-> Nenhum, clientes |-> << >>]
        a == RedeComCidade(vazia, CidadesPredefinidas.armazem, "armazem")
        b == RedeComCidades(a, CidadesPredefinidas.intermediarias, "intermediaria", 1)
        c == RedeComCidades(b, CidadesPredefinidas.clientes, "cliente", 1)
    IN  RedeComEstradas(c, EstradasPredefinidas, 1)

\* calcular_rota: the route the interface shows for a graph g.
CalcularRota(gerado, g, origem, destino, rota) ==
    IF ~gerado THEN rota ELSE CalcularCaminhoMinimoManual(g, origem, destino)

\* The user selects an origin and a destination; on_origem_destino_change
\* shows the route again when a graph was generated.
SelecionarRota(origem, destino) ==
    /\ interface' = [interface EXCEPT
           !.origem = origem, !.destino = destino,
           !.rota = CalcularRota(interface.grafo_gerado, grafo, origem, destino, @)]
    /\ ret' = [op |-> "on_origem_destino_change", interface_antes |-> interface]
    /\ antes' = Rede
    /\ UNCHANGED <<grafo, armazem, clientes, grafo_backup, antes_falha,
                   estrada_falha, chamada, tarefas, copias>>

GerarGrafo ==
    /\ IF interface.origem = interface.destino
       THEN UNCHANGED <<grafo, armazem, clientes, interface>>
       ELSE /\ grafo' = RedePredefinida.grafo
            /\ armazem' = RedePredefinida.armazem
            /\ clientes' = RedePredefinida.clientes
            /\ interface' = [interface EXCEPT
                   !.grafo_backup = RedePredefinida.grafo,
                   !.grafo_gerado = TRUE,
                   !.estradas_quebradas = << >>,
                   !.rota = CalcularRota(TRUE, RedePredefinida.grafo,
                                         interface.origem, interface.destino, @)]
    /\ ret' = [op |-> "gerar_grafo", interface_antes |-> interface]
    /\ antes' = Rede
    /\ UNCHANGED <<grafo_backup, antes_falha, estrada_falha, chamada, tarefas,
                   copias>>

\* quebrar_estrada with the road selected in the two lists ("" when
\* nothing is selected).
QuebrarEstrada(origem, destino) ==
    /\ IF ~interface.grafo_gerado \/ origem = "" \/ destino = ""
          \/ origem = destino
          \/ ~HasEdge(grafo, origem, destino)
          \/ InSeq(interface.estradas_quebradas, <<origem, destino>>)
       THEN UNCHANGED <<grafo, interface>>
       ELSE /\ grafo' = RemoveEdge(grafo, origem, destino)
            /\ interface' = [interface EXCEPT
                   !.estradas_quebradas = Append(@, <<origem, destino>>),
                   !.rota = CalcularRota(TRUE, RemoveEdge(grafo, origem, destino),
                                         interface.origem, interface.destino, @)]
    /\ ret' = [op |-> "quebrar_estrada", origem |-> origem, destino |-> destino,
               interface_antes |-> interface]
    /\ antes' = Rede
    /\ UNCHANGED <<armazem, clientes, grafo_backup, antes_falha, estrada_falha,
                   chamada, tarefas, copias>>

\* Variant of RestaurarTodasEstradas that keeps the list of broken roads.
RestaurarSemLimparLista ==
    /\ IF ~interface.grafo_gerado \/ Len(interface.estradas_quebradas) = 0
       THEN UNCHANGED <<grafo, interface>>
       ELSE /\ grafo' = interface.grafo_backup
            /\ interface' = [interface EXCEPT
                   !.rota = CalcularRota(TRUE, interface.grafo_backup,
                                         interface.origem, interface.destino, @)]
    /\ ret' = [op |-> "restaurar_todas_estradas", interface_antes |-> interface]
    /\ antes' = Rede
    /\ UNCHANGED <<armazem, clientes, grafo_backup, antes_falha, estrada_falha,
                   chamada, tarefas, copias>>

RestaurarTodasEstradas ==
    /\ IF ~interface.grafo_gerado \/ Len(interface.estradas_quebradas) = 0
       THEN UNCHANGED <<grafo, interface>>
       ELSE /\ grafo' = interface.grafo_backup
            /\ interface' = [interface EXCEPT
                   !.estradas_quebradas = << >>,
                   !.rota = CalcularRota(TRUE, interface.grafo_backup,
                                         interface.origem, interface.destino, @)]
    /\ ret' = [op |-> "restaurar_todas_estradas", interface_antes |-> interface]
    /\ antes' = Rede
    /\ UNCHANGED <<armazem, clientes, grafo_backup, antes_falha, estrada_falha,
                   chamada, tarefas, copias>>

\* What the lists of the road to break offer: nothing selected, or a city.
SelecaoDeEstrada == Cidades \cup {""}

\* The user of the interface selects routes and presses its buttons in any
\* order.
NextInterface ==
    \/ \E o \in Cidades, d \in Cidades : SelecionarRota(o, d)
    \/ GerarGrafo
    \/ \E o \in SelecaoDeEstrada, d \in SelecaoDeEstrada : QuebrarEstrada(o, d)
    \/ RestaurarTodasEstradas

SpecInterface == Init /\ [][NextInterface]_vars

(***************************************************************************)
(* Vocabulary of the properties, defined on the graph alone and not        *)
(* through the search.                                                     *)
(***************************************************************************)
Nos(g) == {g.nos[i] : i \in 1..Len(g.nos)}

Arestas(g) == {p \in Cidades \X Cidades : InSeq(g.succ[p[1]], p[2])}

\* The simple directed paths of g from o to d, as node sequences.
CaminhosSimples(g, o, d) ==
    UNION {{p \in [1..n -> Nos(g)] :
              /\ p[1] = o
              /\ p[n] = d
              /\ \A i, j \in 1..n : i # j => p[i] # p[j]
              /\ \A i \in 1..(n - 1) : <<p[i], p[i + 1]>> \in Arestas(g)}
           : n \in 1..Cardinality(Cidades)}

RECURSIVE CustoDoCaminho(_, _)
CustoDoCaminho(g, p) ==
    IF Len(p) < 2 THEN 0
    ELSE g.custo[<<p[1], p[2]>>] + CustoDoCaminho(g, Tail(p))

RECURSIVE Alcancados(_, _)
\* The nodes reached from the set S along directed edges.
Alcancados(g, S) ==
    LET T == S \cup {v \in Cidades : \E u \in S : <<u, v>> \in Arestas(g)}
    IN  IF T = S THEN S ELSE Alcancados(g, T)

\* A directed path from o to d exists (the path of one node when o = d).
Alcancavel(g, o, d) == o \in Nos(g) /\ d \in Nos(g) /\ d \in Alcancados(g, {o})

EhConsultaMinimo == ret.op = "calcular_caminho_minimo_manual"

EhConsultaRotas == ret.op = "comparar_rotas"

EhAnalise == ret.op = "analisar_robustez"

\* C1: for distinct nodes o, d of the model joined by a directed path, the
\* minimum-cost query returns a simple path from o to d along edges of the
\* model, with the sum of its edge costs, and no simple path from o to d
\* costs less.
C1_CaminhoMinimo ==
    (/\ EhConsultaMinimo
     /\ ret.origem # ret.destino
     /\ CaminhosSimples(grafo, ret.origem, ret.destino) # {})
    => /\ ret.valor.achou
       /\ ret.valor.caminho \in CaminhosSimples(grafo, ret.origem, ret.destino)
       /\ ret.valor.custo = CustoDoCaminho(grafo, ret.valor.caminho)
       /\ \A q \in CaminhosSimples(grafo, ret.origem, ret.destino) :
              ret.valor.custo <= CustoDoCaminho(grafo, q)

\* The documented scenario: A->B 10, B->C 5, A->C 30, query (A, C) answers
\* [A, B, C] with cost 15.
C1_Witness ==
    /\ EhConsultaMinimo
    /\ ret.origem = "A" /\ ret.destino = "C"
    /\ grafo.custo[<<"A", "B">>] = 10
    /\ grafo.custo[<<"B", "C">>] = 5
    /\ grafo.custo[<<"A", "C">>] = 30
    /\ ret.valor = [achou |-> TRUE, caminho |-> <<"A", "B", "C">>, custo |-> 15]

\* C2: for every graph and every origin and destination, in the model or
\* not, equal or not, the cheapest entry of comparar_rotas is the path and
\* the cost the minimum-cost query returns, and comparar_rotas returns no
\* path exactly when the minimum-cost query returns (None, None).
C2_EnumeracaoIgualMinimo ==
    EhConsultaRotas
    => LET m == CalcularCaminhoMinimoManual(grafo, ret.origem, ret.destino)
           rotas == ret.valor.rotas
       IN  /\ ~ret.valor.erro
           /\ Len(rotas) = 0 <=> ~m.achou
           /\ Len(rotas) > 0 => MinPorCusto(rotas) = <<m.caminho, m.custo>>

\* C3: for distinct nodes o, d of the model, comparar_rotas returns every
\* simple directed path from o to d exactly once, each with the sum of its
\* edge costs, nothing else, in order of non-decreasing cost.
C3_TodasAsRotas ==
    (/\ EhConsultaRotas
     /\ ret.origem # ret.destino
     /\ HasNode(grafo, ret.origem) /\ HasNode(grafo, ret.destino))
    => LET rotas == ret.valor.rotas
       IN  /\ ~ret.valor.erro
           /\ {rotas[i][1] : i \in 1..Len(rotas)}
                  = CaminhosSimples(grafo, ret.origem, ret.destino)
           /\ \A i, j \in 1..Len(rotas) : i # j => rotas[i][1] # rotas[j][1]
           /\ \A i \in 1..Len(rotas) :
                  rotas[i][2] = CustoDoCaminho(grafo, rotas[i][1])
           /\ \A i \in 1..(Len(rotas) - 1) : rotas[i][2] <= rotas[i + 1][2]

\* A->B 10, B->C 5, A->C 30 gives ([A,B,C], 15) then ([A,C], 30), although
\* the search finds [A,C] first.
C3_Witness ==
    /\ EhConsultaRotas
    /\ ret.origem = "A" /\ ret.destino = "C"
    /\ grafo.succ["A"] = <<"C", "B">>
    /\ ret.valor.rotas = << <<(<<"A", "B", "C">>), 15>>, <<(<<"A", "C">>), 30>> >>

Pares == Cidades \X Cidades

\* The two path queries answer alike on g and on h, for every pair.
MesmasConsultas(g, h) ==
    \A p \in Pares :
        /\ CalcularCaminhoMinimoManual(g, p[1], p[2])
               = CalcularCaminhoMinimoManual(h, p[1], p[2])
        /\ CompararRotas(g, p[1], p[2]) = CompararRotas(h, p[1], p[2])

\* The same roads with the same costs.
MesmasEstradas(g, h) ==
    \A p \in Pares :
        /\ HasEdge(g, p[1], p[2]) <=> HasEdge(h, p[1], p[2])
        /\ g.custo[p] = h.custo[p]

C5_AnaliseRestaura ==
    EhAnalise
    => /\ Nos(grafo) = Nos(antes.grafo)
       /\ MesmasEstradas(grafo, antes.grafo)
       /\ armazem = antes.armazem
       /\ clientes = antes.clientes
       /\ MesmasConsultas(grafo, antes.grafo)

\* An analysis of a model where two routes A -> C tie (10 + 5 = 15), every
\* road of A having been removed and put back.
C5_Witness ==
    /\ EhAnalise
    /\ armazem = "A" /\ InSeq(clientes, "C")
    /\ grafo.custo[<<"A", "B">>] = 10
    /\ grafo.custo[<<"B", "C">>] = 5
    /\ grafo.custo[<<"A", "C">>] = 15
    /\ DOMAIN ret.valor.impacto_falhas = Arestas(grafo)

\* The entries of the list of critical and important roads about one road.
EntradasDe(analise, e) ==
    {i \in 1..Len(analise.estradas_criticas) : analise.estradas_criticas[i].estrada = e}

ClassificadaComo(analise, e, tipo) ==
    \E i \in EntradasDe(analise, e) : analise.estradas_criticas[i].tipo = tipo

\* The customer c has a route from the warehouse in g and none without e.
RotaPerdida(g, arm, e, c) ==
    /\ Designado(arm)
    /\ Alcancavel(g, arm, c)
    /\ ~Alcancavel(RemoveEdge(g, e[1], e[2]), arm, c)

\* C6: a road is classified critical exactly when some customer of the
\* roster has a route from the warehouse with the road and none without it,
\* and the report lists exactly those customers as impossible routes.
C6_CriticaExata ==
    EhAnalise
    => \A e \in Arestas(antes.grafo) :
          LET perdida(c) == RotaPerdida(antes.grafo, armazem, e, c)
          IN  /\ ClassificadaComo(ret.valor, e, "CRITICA")
                     <=> \E i \in 1..Len(clientes) : perdida(clientes[i])
              /\ ret.valor.impacto_falhas[e].rotas_impossiveis
                     = SelectSeq(clientes, perdida)

RECURSIVE AumentoDeCusto(_, _, _, _, _)
\* The sum, over the roster from the i-th customer on, of the positive
\* differences between the minimum cost without e and the minimum cost in g.
AumentoDeCusto(g, arm, e, cls, i) ==
    IF i > Len(cls) THEN 0
    ELSE LET com == CalcularCaminhoMinimoManual(g, arm, cls[i])
             sem == CalcularCaminhoMinimoManual(RemoveEdge(g, e[1], e[2]), arm, cls[i])
             d == IF com.achou /\ sem.achou /\ sem.custo > com.custo
                  THEN sem.custo - com.custo ELSE 0
         IN  d + AumentoDeCusto(g, arm, e, cls, i + 1)

\* C7: a road whose removal makes no route impossible is classified
\* important exactly when the cost increases it causes, summed over the
\* roster against the minimum costs before the removal, are positive.
C7_ImportanteExata ==
    EhAnalise
    => \A e \in Arestas(antes.grafo) :
          (\A i \in 1..Len(clientes) :
               ~RotaPerdida(antes.grafo, armazem, e, clientes[i]))
          => (ClassificadaComo(ret.valor, e, "IMPORTANTE")
                 <=> (Designado(armazem)
                      /\ AumentoDeCusto(antes.grafo, armazem, e, clientes, 1) > 0))

\* C8: the impact map of an analysis has one entry for each road of the
\* model and for nothing else, and a road has at most one entry in the list
\* of critical and important roads, hence never both labels.
C8_UmaClasse ==
    EhAnalise
    => /\ DOMAIN ret.valor.impacto_falhas = Arestas(antes.grafo)
       /\ \A e \in Pares :
              /\ Cardinality(EntradasDe(ret.valor, e)) <= 1
              /\ EntradasDe(ret.valor, e) # {} => e \in Arestas(antes.grafo)

\* An analysis of three roads of which one is critical and one is neither
\* critical nor important.
C8_Witness ==
    /\ EhAnalise
    /\ Cardinality(Arestas(antes.grafo)) = 3
    /\ \E e \in Arestas(antes.grafo) : ClassificadaComo(ret.valor, e, "CRITICA")
    /\ \E e \in Arestas(antes.grafo) : EntradasDe(ret.valor, e) = {}

\* C9: the minimum-cost query answers (None, None) exactly when the origin or
\* the destination is not in the model or no directed path leads from the
\* origin to the destination.
C9_NaoEncontrado ==
    EhConsultaMinimo
    => (~ret.valor.achou <=> ~Alcancavel(grafo, ret.origem, ret.destino))

\* Direction matters: the query (o, d) just made found nothing between two
\* nodes of the model although the query (d, o) finds a path.
C9_Witness ==
    /\ EhConsultaMinimo
    /\ HasNode(grafo, ret.origem) /\ HasNode(grafo, ret.destino)
    /\ ~ret.valor.achou
    /\ CalcularCaminhoMinimoManual(grafo, ret.destino, ret.origem).achou

\* C10: for a node o of the model the minimum-cost query (o, o) answers the
\* path [o] with cost 0, whatever edges the model has.
C10_Trivial ==
    (EhConsultaMinimo /\ ret.origem = ret.destino /\ HasNode(grafo, ret.origem))
    => ret.valor = [achou |-> TRUE, caminho |-> <<ret.origem>>, custo |-> 0]

\* The query (A, A) on a model with a self-loop on A and a cycle A->C->A.
C10_Witness ==
    /\ EhConsultaMinimo
    /\ ret.origem = "A" /\ ret.destino = "A"
    /\ {<<"A", "A">>, <<"A", "C">>, <<"C", "A">>} \subseteq Arestas(grafo)
    /\ ret.valor.caminho = <<"A">>

\* The costs of the simple directed paths of g from o to d.
CustosDosCaminhos(g, o, d) ==
    {CustoDoCaminho(g, q) : q \in CaminhosSimples(g, o, d)}

\* The least element of a non-empty set of numbers.
Menor(S) == CHOOSE x \in S : \A y \in S : x <= y

\* The edges a path walks.
ArestasDoCaminho(p) == {<<p[i], p[i + 1]>> : i \in 1..(Len(p) - 1)}

\* C11: while a road is removed, the minimum-cost query for any pair is
\* answered over the remaining roads: the removed road is not in the model
\* and not on the returned path, the returned cost is the minimum over the
\* remaining simple paths and not lower than the minimum before the
\* removal, and (None, None) is returned exactly when no path remains.
C11_ConsultaAposRemocao ==
    (JanelaAberta /\ EhConsultaMinimo)
    => LET o == ret.origem
           d == ret.destino
       IN  /\ estrada_falha \in Arestas(antes_falha)
           /\ estrada_falha \notin Arestas(grafo)
           /\ ret.valor.achou <=> Alcancavel(grafo, o, d)
           /\ ret.valor.achou
              => /\ estrada_falha \notin ArestasDoCaminho(ret.valor.caminho)
                 /\ ret.valor.caminho \in CaminhosSimples(grafo, o, d)
                 /\ ret.valor.custo = Menor(CustosDosCaminhos(grafo, o, d))
                 /\ CustosDosCaminhos(antes_falha, o, d) # {}
                 /\ ret.valor.custo >= Menor(CustosDosCaminhos(antes_falha, o, d))

\* The documented scenario: with A->B 10, B->C 5, A->C 30 the query (A, C)
\* costs 15 along [A, B, C]; with A->B removed it answers [A, C] with cost
\* 30.
C11_Witness ==
    /\ JanelaAberta /\ EhConsultaMinimo
    /\ estrada_falha = <<"A", "B">>
    /\ ret.origem = "A" /\ ret.destino = "C"
    /\ antes_falha.custo[<<"A", "B">>] = 10
    /\ antes_falha.custo[<<"B", "C">>] = 5
    /\ antes_falha.custo[<<"A", "C">>] = 30
    /\ Menor(CustosDosCaminhos(antes_falha, "A", "C")) = 15
    /\ ret.valor = [achou |-> TRUE, caminho |-> <<"A", "C">>, custo |-> 30]

\* The number of roads of g into n and out of n.
GrauEntrada(g, n) == Cardinality({e \in Arestas(g) : e[2] = n})

GrauSaida(g, n) == Cardinality({e \in Arestas(g) : e[1] = n})

\* The nodes of g at cut risk: not the warehouse, one road in or one road out.
EmRisco(g, arm) ==
    {n \in Nos(g) : n # arm /\ (GrauEntrada(g, n) = 1 \/ GrauSaida(g, n) = 1)}

\* C12: the analysis lists as cut-risk, once each and with their degrees,
\* exactly the nodes other than the warehouse whose in-degree is 1 or whose
\* out-degree is 1, the degrees being those of the graph the analysis leaves,
\* which are those of the graph before the call.
C12_CidadesCriticas ==
    EhAnalise
    => LET cc == ret.valor.cidades_criticas
       IN  /\ {cc[i].cidade : i \in 1..Len(cc)} = EmRisco(grafo, armazem)
           /\ EmRisco(grafo, armazem) = EmRisco(antes.grafo, armazem)
           /\ \A i, j \in 1..Len(cc) : i # j => cc[i].cidade # cc[j].cidade
           /\ \A i \in 1..Len(cc) :
                  /\ cc[i].grau_entrada = GrauEntrada(antes.grafo, cc[i].cidade)
                  /\ cc[i].grau_saida = GrauSaida(antes.grafo, cc[i].cidade)

\* An analysis with warehouse A where A and B each have one road in and one
\* road out: B is listed with its degrees and the warehouse is not listed.
C12_Witness ==
    /\ EhAnalise
    /\ armazem = "A"
    /\ LET cc == ret.valor.cidades_criticas
       IN  /\ GrauEntrada(grafo, "A") = 1 /\ GrauSaida(grafo, "A") = 1
           /\ \A i \in 1..Len(cc) : cc[i].cidade # "A"
           /\ \E i \in 1..Len(cc) :
                  cc[i] = [cidade |-> "B", grau_entrada |-> 1, grau_saida |-> 1]

\* C13: the answer of a minimum-cost query with an origin or a destination
\* that is not in the model differs from the answer of every minimum-cost
\* query between two nodes of the model that no path joins.
C13_ValidacaoDistinta ==
    (EhConsultaMinimo
     /\ (ret.origem \notin Nos(grafo) \/ ret.destino \notin Nos(grafo)))
    => \A p \in Pares :
           (/\ p[1] \in Nos(grafo)
            /\ p[2] \in Nos(grafo)
            /\ ~Alcancavel(grafo, p[1], p[2]))
           => ret.valor # CalcularCaminhoMinimoManual(grafo, p[1], p[2])

\* C14: with an empty roster or without a warehouse the analysis returns a
\* report in which no road is critical or important and the entry of every
\* road has no impossible route, no affected route and impact 0, and the
\* model is as it was before the call.
C14_RelatorioVazio ==
    (EhAnalise /\ (Len(clientes) = 0 \/ armazem = Nenhum))
    => /\ ret.valor.estradas_criticas = << >>
       /\ DOMAIN ret.valor.impacto_falhas = Arestas(antes.grafo)
       /\ \A e \in DOMAIN ret.valor.impacto_falhas :
              /\ ret.valor.impacto_falhas[e].rotas_impossiveis = << >>
              /\ ret.valor.impacto_falhas[e].rotas_afetadas = << >>
              /\ ret.valor.impacto_falhas[e].impacto_total = ImpactoZero
       /\ Rede = antes

\* An analysis without a warehouse of a model with customers and at least
\* two roads, one of them into a customer.
C14_Witness ==
    /\ EhAnalise
    /\ armazem = Nenhum
    /\ Len(clientes) > 0
    /\ Cardinality(Arestas(antes.grafo)) >= 2
    /\ \E e \in Arestas(antes.grafo) : e[2] = clientes[1]
    /\ ret.valor.estradas_criticas = << >>

\* C15: a minimum-cost query and an enumeration of routes leave the model as
\* it was: the same nodes in the same roles, the same roads with the same
\* costs, the same warehouse and the same roster, whatever the arguments.
C15_ConsultasPuras ==
    (EhConsultaMinimo \/ EhConsultaRotas)
    => /\ Nos(grafo) = Nos(antes.grafo)
       /\ Arestas(grafo) = Arestas(antes.grafo)
       /\ \A e \in Arestas(grafo) : grafo.custo[e] = antes.grafo.custo[e]
       /\ armazem = antes.armazem
       /\ clientes = antes.clientes
       /\ grafo = antes.grafo

\* A minimum-cost query from a node of a model with roads, a warehouse and
\* customers to a city that is not in the model.
C15_Witness ==
    /\ EhConsultaMinimo
    /\ ret.origem \in Nos(grafo)
    /\ ret.destino \notin Nos(grafo)
    /\ Arestas(grafo) # {}
    /\ armazem = "A"
    /\ Len(clientes) > 0

EhAdicionarCidade == ret.op = "adicionar_cidade"

EhAdicionarEstrada == ret.op = "adicionar_estrada"

\* The nodes of g tagged with the role t.
ComPapel(g, t) == {n \in Nos(g) : g.tipo[n] = t}

\* C17: at most one node of the model holds the warehouse role, and after a
\* city is added as warehouse it is the only node in that role and the
\* warehouse pointer names it.
C17_UmArmazem ==
    /\ Cardinality(ComPapel(grafo, "armazem")) <= 1
    /\ (EhAdicionarCidade /\ ret.tipo = "armazem")
       => /\ armazem = ret.nome
          /\ ComPapel(grafo, "armazem") = {ret.nome}

\* C18: adding a city as customer appends its id to the roster, whether or
\* not the id is in the roster already; adding a city in another role and
\* adding a road leave the roster as it was. The roster starts empty.
C18_ListaDeClientes ==
    /\ ret.op = "init" => clientes = << >>
    /\ EhAdicionarCidade
       => clientes = IF ret.tipo = "cliente"
                     THEN Append(antes.clientes, ret.nome)
                     ELSE antes.clientes
    /\ EhAdicionarEstrada => clientes = antes.clientes

\* The customer B added a second time: the roster is [B, B].
C18_Witness ==
    /\ EhAdicionarCidade
    /\ ret.nome = "B" /\ ret.tipo = "cliente"
    /\ antes.clientes = <<"B">>
    /\ clientes = <<"B", "B">>

\* C20: adding a road from or to a city that is not in the model returns
\* normally: the missing endpoints become nodes without a role, after the
\* nodes there were, origin first; the road is in the model with its cost;
\* the other nodes, roles, roads and costs, the warehouse pointer and the
\* roster are as before.
C20_EstradaCriaCidades ==
    (/\ EhAdicionarEstrada
     /\ {ret.origem, ret.destino} \ Nos(antes.grafo) # {})
    => LET novos == {ret.origem, ret.destino} \ Nos(antes.grafo)
           e == <<ret.origem, ret.destino>>
       IN  /\ Nos(grafo) = Nos(antes.grafo) \cup novos
           /\ SubSeq(grafo.nos, 1, Len(antes.grafo.nos)) = antes.grafo.nos
           /\ Len(grafo.nos) = Len(antes.grafo.nos) + Cardinality(novos)
           /\ novos = {ret.origem, ret.destino}
              => grafo.nos[Len(antes.grafo.nos) + 1] = ret.origem
           /\ \A n \in novos : grafo.tipo[n] = Nenhum
           /\ \A n \in Nos(antes.grafo) : grafo.tipo[n] = antes.grafo.tipo[n]
           /\ Arestas(grafo) = Arestas(antes.grafo) \cup {e}
           /\ grafo.custo[e] = ret.custo
           /\ \A f \in Arestas(antes.grafo) : grafo.custo[f] = antes.grafo.custo[f]
           /\ armazem = antes.armazem
           /\ clientes = antes.clientes

\* The road C->B added to a model with warehouse A and a roster, where
\* neither C nor B is a node.
C20_Witness ==
    /\ EhAdicionarEstrada
    /\ ret.origem = "C" /\ ret.destino = "B"
    /\ antes.grafo.nos = <<"A">>
    /\ armazem = "A"
    /\ Len(clientes) > 0
    /\ grafo.nos = <<"A", "C", "B">>

EhSimulacao == ret.op = "simular_falha_estrada"

EhRestauracao == ret.op = "restaurar_grafo"

\* C19: simulating the failure of a road that is not in the model removes
\* nothing, gives the caller no backup and leaves the model as it was, and
\* restoring from no backup leaves the model as it was.
C19_EstradaAusente ==
    /\ (EhSimulacao /\ <<ret.origem, ret.destino>> \notin Arestas(antes.grafo))
       => /\ ~ret.removida
          /\ grafo_backup = SemBackup
          /\ Rede = antes
    /\ (EhRestauracao /\ ~ret.backup) => Rede = antes

\* The failure of the road A->C was simulated on a model with the roads
\* A->B and B->C only.
C19_Witness ==
    /\ EhSimulacao
    /\ ret.origem = "A" /\ ret.destino = "C"
    /\ Arestas(antes.grafo) = {<<"A", "B">>, <<"B", "C">>}
    /\ Arestas(grafo) = {<<"A", "B">>, <<"B", "C">>}
    /\ ~JanelaAberta

\* The path a search in progress is building has no node twice.
SemRepeticao ==
    EmCurso
    => \A i, j \in 1..Len(chamada.caminho_atual) :
           i # j => chamada.caminho_atual[i] # chamada.caminho_atual[j]

\* C16: while a search is in progress, of either query and whatever its
\* arguments, the path under construction has no node twice, and neither
\* the path nor the stack of activations of dfs is longer than the number
\* of nodes of the graph.
C16_BuscaLimitada ==
    /\ SemRepeticao
    /\ EmCurso
       => /\ Len(chamada.caminho_atual) <= Cardinality(Nos(grafo))
          /\ Len(chamada.pilha) <= Cardinality(Nos(grafo))

\* What holds of every search: no node twice on the path, one activation
\* for each node of the path at most, and a path within the graph when the
\* search starts from a node of the graph.
BuscaDentroDoGrafo ==
    /\ SemRepeticao
    /\ EmCurso
       => /\ Len(chamada.pilha) <= Len(chamada.caminho_atual)
          /\ chamada.origem \in Nos(grafo)
             => /\ \A i \in 1..Len(chamada.caminho_atual) :
                       chamada.caminho_atual[i] \in Nos(grafo)
                /\ Len(chamada.caminho_atual) <= Cardinality(Nos(grafo))

\* The answers of the searches made step by step are those of the queries.
BuscaConfere ==
    /\ EhConsultaMinimo
       => ret.valor = CalcularCaminhoMinimoManual(grafo, ret.origem, ret.destino)
    /\ EhConsultaRotas
       => ret.valor = CompararRotas(grafo, ret.origem, ret.destino)

\* A search that keeps taking steps comes to its end.
BuscaTermina == EmCurso ~> ~EmCurso

\* The number of roads of g from u to v.
EstradasEntre(g, u, v) == Cardinality({k \in 1..Len(g.succ[u]) : g.succ[u][k] = v})

\* C21: the model has at most one road for each ordered pair of cities;
\* after adicionar_estrada(u, v, c) the road u->v has the cost c, and every
\* other road, the road v->u included, is in the model exactly if it was
\* before, with the cost it had.
C21_UmaEstradaPorPar ==
    /\ \A p \in Pares : EstradasEntre(grafo, p[1], p[2]) <= 1
    /\ EhAdicionarEstrada
       => LET e == <<ret.origem, ret.destino>>
          IN  /\ EstradasEntre(grafo, e[1], e[2]) = 1
              /\ grafo.custo[e] = ret.custo
              /\ Arestas(grafo) \ {e} = Arestas(antes.grafo) \ {e}
              /\ \A f \in Arestas(antes.grafo) \ {e} :
                     grafo.custo[f] = antes.grafo.custo[f]

\* The road A->C, of cost 30, is added again with cost 15 in a model that
\* has the road C->A of cost 5.
C21_Witness ==
    /\ EhAdicionarEstrada
    /\ ret.origem = "A" /\ ret.destino = "C" /\ ret.custo = 15
    /\ <<"A", "C">> \in Arestas(antes.grafo)
    /\ antes.grafo.custo[<<"A", "C">>] = 30
    /\ <<"C", "A">> \in Arestas(antes.grafo)
    /\ grafo.custo[<<"A", "C">>] = 15
    /\ grafo.custo[<<"C", "A">>] = 5

\* C22: in the report of an analysis no road has an affected route, the
\* impact of every road is 0 or infinite, infinite exactly when the road has
\* an impossible route, and no road is labelled important.
C22_DeltaSempreZero ==
    EhAnalise
    => /\ \A e \in DOMAIN ret.valor.impacto_falhas :
              LET imp == ret.valor.impacto_falhas[e]
              IN  /\ imp.rotas_afetadas = << >>
                  /\ imp.impacto_total \in {ImpactoZero, ImpactoInfinito}
                  /\ imp.impacto_total = ImpactoInfinito
                         <=> imp.rotas_impossiveis # << >>
       /\ \A i \in 1..Len(ret.valor.estradas_criticas) :
              ret.valor.estradas_criticas[i].tipo # "IMPORTANTE"

\* An analysis of a model where the removal of one road loses no route and
\* makes the route to a customer dearer: the report gives that road impact 0
\* and no label.
C22_Witness ==
    /\ EhAnalise
    /\ \E e \in Arestas(antes.grafo) :
           /\ \A i \in 1..Len(clientes) :
                  ~RotaPerdida(antes.grafo, armazem, e, clientes[i])
           /\ AumentoDeCusto(antes.grafo, armazem, e, clientes, 1) > 0
           /\ ret.valor.impacto_falhas[e].impacto_total = ImpactoZero
           /\ EntradasDe(ret.valor, e) = {}

\* C23: while an analysis is in progress the graph has the nodes it had at
\* the start of the call and lacks at most one of the roads: none between
\* two iterations, where every road has the cost it had at the start, and
\* exactly the road of the iteration from its removal to its restoration,
\* where the saved cost is the cost the road had and the impact computed is
\* the impact on the initial graph without that road.
C23_UmaEstradaDeCadaVez ==
    \A t \in Tarefas :
        Analisando(t)
        => LET T == tarefas[t]
           IN  /\ Nos(grafo) = Nos(T.inicial)
               /\ Arestas(grafo) \subseteq Arestas(T.inicial)
               /\ Cardinality(Arestas(T.inicial) \ Arestas(grafo)) <= 1
               /\ T.pc = "remover" => MesmasEstradas(grafo, T.inicial)
               /\ T.pc \in {"consultar", "repor"}
                  => LET e == EstradaAtual(t)
                         sem == RemoveEdge(T.inicial, e[1], e[2])
                     IN  /\ MesmasEstradas(grafo, sem)
                         /\ T.custo_original = T.inicial.custo[e]
                         /\ T.pc = "repor"
                            => T.impacto = AnalisarClientes(sem, T.inicial,
                                   armazem, clientes, 1, ImpactoInicial)

\* The analysis of a model of three roads is in its third iteration: the
\* two roads analysed before are back, the third is removed, and the report
\* so far has an entry for each of the two.
C23_Witness ==
    /\ Analisando("t1")
    /\ tarefas["t1"].pc = "repor"
    /\ tarefas["t1"].i = 3
    /\ Len(tarefas["t1"].estradas) = 3
    /\ Arestas(tarefas["t1"].inicial) \ Arestas(grafo) = {EstradaAtual("t1")}
    /\ Cardinality(DOMAIN tarefas["t1"].analise.impacto_falhas) = 2

\* The report and the graph of an analysis made step by step are those of
\* analisar_robustez on the graph at the start of the call.
AnaliseConfere ==
    EhAnalise
    => LET r == AnalisarRobustez(ret.inicial, armazem, clientes)
       IN  /\ ret.valor = r.analise
           /\ grafo = r.g

EhErro == ret.op = "erro"

\* C24: whenever control is back with the caller after a failure-simulation
\* window, whether the window ended normally or a step inside it raised,
\* the graph has the roads it had when the window was opened, at the costs
\* they had.
C24_RestauraEmTodaSaida ==
    /\ EhErro => MesmasEstradas(grafo, ret.inicial)
    /\ EhAnalise => MesmasEstradas(grafo, ret.inicial)
    /\ (EhRestauracao /\ ret.backup) => MesmasEstradas(grafo, ret.antes_falha)

\* The roads labelled critical in a report.
Criticas(analise) == {e \in Pares : ClassificadaComo(analise, e, "CRITICA")}

\* C25: between the removal of a road by a call of analisar_robustez and its
\* restoration the one shared graph lacks that road, for every caller: the
\* roads a call in progress finds missing from the graph it started on are
\* those held removed by calls in progress, and a call that comes to a road
\* of its list held removed by another call is about to fail at line 262.
C25_JanelaVisivel ==
    /\ \A t \in Tarefas :
           NaJanela(t) => EstradaAtual(t) \notin Arestas(grafo)
    /\ \A t \in Tarefas :
           Analisando(t)
           => Arestas(tarefas[t].inicial) \ Arestas(grafo) \subseteq EstradasRetidas
    /\ \A t \in Tarefas :
           (/\ tarefas[t].pc = "remover"
            /\ tarefas[t].i <= Len(tarefas[t].estradas)
            /\ EstradaAtual(t) \notin Arestas(grafo))
           => \E u \in Tarefas \ {t} : NaJanela(u) /\ EstradaAtual(u) = EstradaAtual(t)

\* The second caller's analysis has returned while no road is held removed,
\* and its report labels critical a road that the analysis of the same
\* model run alone does not.
C25_Witness ==
    /\ EhAnalise
    /\ ret.tarefa = "t2"
    /\ EstradasRetidas = {}
    /\ Criticas(ret.valor)
           # Criticas(AnalisarRobustez(grafo, armazem, clientes).analise)
    /\ Criticas(AnalisarRobustez(grafo, armazem, clientes).analise) = {}

\* A call is about to fail at line 262: the road of its iteration is held
\* removed by the other call.
FalhaIntercalada ==
    \E t \in Tarefas :
        /\ tarefas[t].pc = "remover"
        /\ tarefas[t].i <= Len(tarefas[t].estradas)
        /\ EstradaAtual(t) \in EstradasRetidas

\* A path query has answered that the customer has no route while a road is
\* held removed, and the customer has a route when no road is removed.
ConsultaIntercalada ==
    /\ EhConsultaMinimo
    /\ ~ret.valor.achou
    /\ \E t \in Tarefas :
           /\ NaJanela(t)
           /\ CalcularCaminhoMinimoManual(
                  AddEdge(grafo, EstradaAtual(t)[1], EstradaAtual(t)[2],
                          tarefas[t].custo_original),
                  ret.origem, ret.destino).achou

\* The position of x in the sequence s.
PosicaoEm(s, x) == CHOOSE k \in 1..Len(s) : s[k] = x

\* Of two different simple paths of g with the same ends, p comes first in
\* the depth-first order: where they part, the road p takes was added to
\* the node they part at before the road q takes.
Precede(g, p, q) ==
    LET k == CHOOSE i \in 2..Len(p) :
                 /\ i <= Len(q)
                 /\ p[i] # q[i]
                 /\ \A j \in 1..(i - 1) : p[j] = q[j]
    IN  PosicaoEm(g.succ[p[k - 1]], p[k]) < PosicaoEm(g.succ[p[k - 1]], q[k])

\* The cheapest simple paths of g from o to d.
MaisBaratos(g, o, d) ==
    {p \in CaminhosSimples(g, o, d) :
         \A q \in CaminhosSimples(g, o, d) :
             CustoDoCaminho(g, p) <= CustoDoCaminho(g, q)}

\* C26: between distinct nodes joined by a path, the minimum-cost query
\* returns, of the cheapest simple paths, the one that comes first in the
\* depth-first order over the roads in insertion order; that path is the
\* first entry of comparar_rotas for the same pair; and the answer is the
\* one the query gives on this state of the model whenever it is asked.
C26_Desempate ==
    (EhConsultaMinimo /\ ret.origem # ret.destino /\ ret.valor.achou)
    => LET p == ret.valor.caminho
           iguais == MaisBaratos(grafo, ret.origem, ret.destino)
       IN  /\ p \in iguais
           /\ \A q \in iguais \ {p} : Precede(grafo, p, q)
           /\ CompararRotas(grafo, ret.origem, ret.destino).rotas[1]
                  = <<p, ret.valor.custo>>
           /\ ret.valor
                  = CalcularCaminhoMinimoManual(grafo, ret.origem, ret.destino)

\* A->C 15 was added before A->B 10 and B->C 5: the routes [A, C] and
\* [A, B, C] tie at 15 and the query answers [A, C].
C26_Witness ==
    /\ EhConsultaMinimo
    /\ ret.origem = "A" /\ ret.destino = "C"
    /\ grafo.succ["A"] = <<"C", "B">>
    /\ Cardinality(MaisBaratos(grafo, "A", "C")) = 2
    /\ ret.valor = [achou |-> TRUE, caminho |-> <<"A", "C">>, custo |-> 15]

\* C27: the warehouse, when one is set, and every entry of the roster are
\* nodes of the graph, and an analysis of the model lists as impossible
\* only routes to customers that are nodes of the graph.
C27_ClientesNoGrafo ==
    /\ armazem # Nenhum => armazem \in Nos(grafo)
    /\ \A i \in 1..Len(clientes) : clientes[i] \in Nos(grafo)
    /\ LET imp == AnalisarRobustez(grafo, armazem, clientes).analise.impacto_falhas
       IN  \A e \in DOMAIN imp :
               \A i \in 1..Len(imp[e].rotas_impossiveis) :
                   imp[e].rotas_impossiveis[i] \in Nos(grafo)

\* C28: after restaurar_grafo with a backup the graph of the model has the
\* nodes, the roads and the costs it had at the simular_falha_estrada call
\* that produced the backup; with two backups held, restoring the second
\* one leaves the road of the first simulation removed.
C28_RestauraEstadoDaChamada ==
    (EhRestauracao /\ ret.backup /\ "copia" \in DOMAIN ret)
        => /\ Nos(grafo) = Nos(ret.antes_falha)
           /\ MesmasEstradas(grafo, ret.antes_falha)
           /\ ret.copia = 2 =>
                  \A e \in Arestas(copias[1].na_chamada) :
                      e \notin Arestas(copias[2].na_chamada)
                          => e \notin Arestas(grafo)

EhPlot == ret.op \in {"_plotar_robustez", "_plotar_analise_falhas"}

\* C29: after a robustness plot of a dashboard, which removes and puts back
\* the first 5 (dashboard.py) or the first 8 (dashboard_avancado.py) roads
\* only, the model has the roads and the costs it had before the plot, and
\* every path query answers as before, the path chosen among equal costs
\* included.
C29_PlotRestaura ==
    EhPlot
    => /\ MesmasEstradas(grafo, antes.grafo)
       /\ MesmasConsultas(grafo, antes.grafo)

EhQuebra == ret.op = "quebrar_estrada"

EhRestauracaoDeTodas == ret.op = "restaurar_todas_estradas"

\* The roads of the list of broken roads.
Quebradas(i) == {i.estradas_quebradas[k] : k \in 1..Len(i.estradas_quebradas)}

\* C30: in the interface, once gerar_grafo built the graph, through every
\* quebrar_estrada and restaurar_todas_estradas: the backup is left as it
\* is; the list of broken roads has no road twice and only roads of the
\* backup; the roads of the graph are the roads of the backup that are not
\* in the list, with the costs of the backup; after restaurar_todas_estradas
\* the graph is the backup and the list is empty; and quebrar_estrada for a
\* road that is not in the graph or is already in the list changes nothing.
C30_InterfaceCoerente ==
    interface.grafo_gerado
    => /\ (EhQuebra \/ EhRestauracaoDeTodas) /\ ret.interface_antes.grafo_gerado
              => interface.grafo_backup = ret.interface_antes.grafo_backup
       /\ \A j, k \in 1..Len(interface.estradas_quebradas) :
              j # k => interface.estradas_quebradas[j] # interface.estradas_quebradas[k]
       /\ Quebradas(interface) \subseteq Arestas(interface.grafo_backup)
       /\ Arestas(grafo) = Arestas(interface.grafo_backup) \ Quebradas(interface)
       /\ \A e \in Arestas(grafo) : grafo.custo[e] = interface.grafo_backup.custo[e]
       /\ EhRestauracaoDeTodas
              => /\ grafo = interface.grafo_backup
                 /\ interface.estradas_quebradas = << >>
       /\ (/\ EhQuebra
           /\ \/ <<ret.origem, ret.destino>> \notin Arestas(antes.grafo)
              \/ <<ret.origem, ret.destino>> \in Quebradas(ret.interface_antes))
              => /\ Rede = antes
                 /\ interface = ret.interface_antes

\* restaurar_todas_estradas with two roads broken, which puts roads back.
C30_Witness ==
    /\ EhRestauracaoDeTodas
    /\ Len(ret.interface_antes.estradas_quebradas) = 2
    /\ Arestas(antes.grafo) # Arestas(grafo)

=============================================================================
